---- MODULE Spec2Model ----
(***************************************************************************)
(* Issue tracker dashboard: the local-data variant (file upload, column   *)
(* resolver, date parser, aggregation, filter) and the remote-data        *)
(* variant (App.tsx).                                                     *)
(*                                                                         *)
(* JavaScript strings are modelled as sequences of one-character strings, *)
(* so that trim, toLowerCase and the regular expressions of the source    *)
(* are computed and not assumed.  The cell values of a record are strings *)
(* (what Papa.parse with header:true delivers), so String(v) is v.        *)
(* A JavaScript object is a sequence of <<key, value>> pairs with         *)
(* distinct keys, in insertion order.                                     *)
(***************************************************************************)
EXTENDS Integers, Sequences, FiniteSets, TLC

VARIABLES
  row,            \* the record handed to a pure helper (resolver, dates)
  possibleNames,  \* the alias list of the last getColumnValue call
  columnValue,    \* the value returned by the last getColumnValue call
  phase,          \* position of the helper harness: "input" or "resolved"
  tz,             \* the time zone of the browser (environment of Date)
  dateStr,        \* the argument of the last parseDate call
  parsedDate,     \* its result: <<>> for null, <<d>> for the Date d
  resolutionDays,       \* <<>>, or <<v>> once getResolutionDays (local) returned v
  resolutionDaysRemote  \* <<>>, or <<v>> once getResolutionDays (remote) returned v

helperVars == <<row, possibleNames, columnValue, phase, dateStr, parsedDate,
                resolutionDays, resolutionDaysRemote>>

\* Local variant, state of IssueDashboard (useState)
VARIABLES
  data,             \* the loaded records
  loading,
  fileName,
  selectedFilter,   \* <<>> for null, else <<[type |-> .., value |-> ..]>>
  showModal,
  searchId,
  searchResult,     \* <<>> for null, else <<record>>
  showSearchModal,
  pending           \* the file reads / parses in flight

stateVars == <<data, loading, fileName, selectedFilter, showModal, searchId,
               searchResult, showSearchModal, pending>>

\* Local variant, what the last render computed from the state
VARIABLES
  statusData, priorityData, typeData, stateData,
  avgResolutionTime,
  filteredData

renderVars == <<statusData, priorityData, typeData, stateData,
                avgResolutionTime, filteredData>>

\* Which variant runs, and the state the remote-data variant has besides
VARIABLES
  variant,          \* "local" (file upload) or "remote" (App.tsx)
  stats,            \* <<>> for null, else <<the Stats the server answered>>
  error,            \* the message of the blocking error state, '' for none
  dataBeforeLoad,   \* history: the records data held when fetchData was called
  dataSource,       \* history (local): the name of the file data was read from
  fresh             \* history (remote): data and stats come from the load
                    \* started last, [data |-> BOOLEAN, stats |-> BOOLEAN]

appVars == <<variant, stats, error, dataBeforeLoad, dataSource, fresh>>

vars == <<helperVars, tz, stateVars, renderVars, appVars>>

----------------------------------------------------------------------------
(* Bounds of the model *)

MaxKeys == 2        \* keys per record in the resolver harness
MaxRows == 2        \* records of a dataset made of the sample records
MaxStates == 12     \* distinct state values of a wide dataset
MaxPending == 2     \* file parses or requests in flight at a time

----------------------------------------------------------------------------
(* Strings *)

EmptyStr == <<>>
Unknown == <<"U", "n", "k", "n", "o", "w", "n">>
Dash == <<"-">>

WhiteSpace == {" ", "\t"}

UpperLetters == <<"A", "B", "C", "D", "E", "F", "G", "H", "I", "J", "K", "L", "M",
                  "N", "O", "P", "Q", "R", "S", "T", "U", "V", "W", "X", "Y", "Z">>
LowerLetters == <<"a", "b", "c", "d", "e", "f", "g", "h", "i", "j", "k", "l", "m",
                  "n", "o", "p", "q", "r", "s", "t", "u", "v", "w", "x", "y", "z">>

\* the lowercase letter of each uppercase letter
LowerOf ==
  [c \in {UpperLetters[i] : i \in 1..26} |->
     LowerLetters[CHOOSE i \in 1..26 : UpperLetters[i] = c]]

LowerChar(c) ==
  LET Lower(table) == IF c \in DOMAIN table THEN table[c] ELSE c
  IN Lower(LowerOf)

\* String.prototype.toLowerCase
toLowerCase(s) ==
  IF s = <<>> THEN <<>> ELSE [i \in 1..Len(s) |-> LowerChar(s[i])]

RECURSIVE TrimStart(_)
TrimStart(s) ==
  IF s = <<>> THEN <<>>
  ELSE IF Head(s) \in WhiteSpace THEN TrimStart(Tail(s)) ELSE s

RECURSIVE TrimEnd(_)
TrimEnd(s) ==
  IF s = <<>> THEN <<>>
  ELSE IF s[Len(s)] \in WhiteSpace THEN TrimEnd(SubSeq(s, 1, Len(s) - 1)) ELSE s

\* String.prototype.trim
trim(s) == TrimEnd(TrimStart(s))

Min(S) == CHOOSE x \in S : \A y \in S : x <= y

----------------------------------------------------------------------------
(* Objects: own keys, property read *)

Digits == <<"0", "1", "2", "3", "4", "5", "6", "7", "8", "9">>
DigitValue == [c \in {Digits[i] : i \in 1..10} |-> (CHOOSE i \in 1..10 : Digits[i] = c) - 1]
IsDigit(c) == c \in DOMAIN DigitValue
DigitVal(c) == DigitValue[c]

IsDigits(s) == s # <<>> /\ \A i \in 1..Len(s) : IsDigit(s[i])

RECURSIVE parseInt(_)
\* parseInt of a string of decimal digits
parseInt(s) ==
  IF s = <<>> THEN 0
  ELSE 10 * parseInt(SubSeq(s, 1, Len(s) - 1)) + DigitVal(s[Len(s)])

\* A canonical array index ("0", "7", "10"; not "07"): such keys come first
\* in the own-key order of an object, in ascending numeric order.  Keys
\* of ten or more digits do not occur in the model.
IsArrayIndex(s) ==
  /\ IsDigits(s)
  /\ Len(s) <= 9
  /\ (Len(s) = 1 \/ s[1] # "0")

Has(obj, k) == \E i \in 1..Len(obj) : obj[i][1] = k
Get(obj, k) == obj[CHOOSE i \in 1..Len(obj) : obj[i][1] = k][2]

RECURSIVE InsertIndexKey(_, _)
\* insert an array-index key into an ascending list of array-index keys
InsertIndexKey(ks, k) ==
  IF ks = <<>> THEN <<k>>
  ELSE IF parseInt(k) < parseInt(Head(ks)) THEN <<k>> \o ks
  ELSE <<Head(ks)>> \o InsertIndexKey(Tail(ks), k)

RECURSIVE IndexKeys(_)
IndexKeys(obj) ==
  IF obj = <<>> THEN <<>>
  ELSE LET rest == IndexKeys(SubSeq(obj, 1, Len(obj) - 1))
           k == obj[Len(obj)][1]
       IN IF IsArrayIndex(k) THEN InsertIndexKey(rest, k) ELSE rest

RECURSIVE StringKeys(_)
StringKeys(obj) ==
  IF obj = <<>> THEN <<>>
  ELSE IF IsArrayIndex(Head(obj)[1]) THEN StringKeys(Tail(obj))
  ELSE <<Head(obj)[1]>> \o StringKeys(Tail(obj))

\* Object.keys: array-index keys ascending, then the others in insertion order
ObjectKeys(obj) == IndexKeys(obj) \o StringKeys(obj)

----------------------------------------------------------------------------
(* Column Resolver (local variant) *)

StatusNames ==
  <<<<"S", "t", "a", "t", "u", "s">>,
    <<"s", "t", "a", "t", "u", "s">>,
    <<"S", "t", "a", "t", "u", "s", " ">>>>
PriorityNames ==
  <<<<"P", "r", "i", "o", "r", "i", "t", "y">>,
    <<"p", "r", "i", "o", "r", "i", "t", "y">>,
    <<"P", "r", "i", "o", "r", "i", "t", "y", " ">>>>
TypeNames ==
  <<<<"I", "s", "s", "u", "e", " ", "t", "r", "a", "c", "k", "e", "r">>,
    <<"I", "s", "s", "u", "e", " ", "t", "r", "a", "c", "k", "e", "r", " ">>,
    <<"I", "s", "s", "u", "e", " ", "T", "r", "a", "c", "k", "e", "r">>,
    <<"I", "s", "s", "u", "e", " ", "T", "r", "a", "c", "k", "e", "r", " ">>,
    <<"i", "s", "s", "u", "e", " ", "t", "r", "a", "c", "k", "e", "r">>,
    <<"T", "r", "a", "c", "k", "e", "r">>,
    <<"T", "y", "p", "e">>,
    <<"t", "y", "p", "e">>>>
StateNames ==
  <<<<"S", "t", "a", "t", "e">>,
    <<"s", "t", "a", "t", "e">>,
    <<"S", "t", "a", "t", "e", " ">>,
    <<"S", "t", "a", "t", "e", "s">>,
    <<"s", "t", "a", "t", "e", "s">>>>
IdNames ==
  <<<<"i", "d">>,
    <<"I", "D">>,
    <<"I", "d">>,
    <<"i", "d", " ">>>>
CreatedOnNames ==
  <<<<"c", "r", "e", "a", "t", "e", "d", "_", "o", "n">>,
    <<"C", "r", "e", "a", "t", "e", "d">>,
    <<"c", "r", "e", "a", "t", "e", "d", "_", "o", "n", " ">>,
    <<"C", "r", "e", "a", "t", "e", "d", " ", "O", "n">>>>
ClosedOnNames ==
  <<<<"c", "l", "o", "s", "e", "d", "_", "o", "n">>,
    <<"C", "l", "o", "s", "e", "d", " ", "O", "n">>,
    <<"c", "l", "o", "s", "e", "d", "_", "o", "n", " ">>,
    <<"C", "l", "o", "s", "e", "d", "_", "O", "n">>,
    <<"c", "l", "o", "s", "e", "d", "O", "n">>>>

\* name.toLowerCase() of every alias of the list
LoweredNames(names) == {toLowerCase(names[i]) : i \in 1..Len(names)}

\* first pass: the aliases, in order, that are own keys with a value other
\* than undefined and ''
ExactHits(r, names) ==
  {i \in 1..Len(names) : Has(r, names[i]) /\ Get(r, names[i]) # EmptyStr}

\* second pass: the positions, in own-key order, of the keys that equal
\* some lowercased alias once trimmed and lowercased
FuzzyHits(keys, names) ==
  LET Hits(lowered) == {k \in 1..Len(keys) : toLowerCase(trim(keys[k])) \in lowered}
  IN Hits(LoweredNames(names))

getColumnValue(r, names) ==
  LET Fallback(keys) ==
        LET FirstOf(fuzzy) ==
              IF fuzzy # {} THEN trim(Get(r, keys[Min(fuzzy)])) ELSE Unknown
        IN FirstOf(FuzzyHits(keys, names))
      Resolve(exact) ==
        IF exact # {} THEN trim(Get(r, names[Min(exact)]))
        ELSE Fallback(ObjectKeys(r))
  IN Resolve(ExactHits(r, names))

getStatus(r) == getColumnValue(r, StatusNames)
getPriority(r) == getColumnValue(r, PriorityNames)
getType(r) == getColumnValue(r, TypeNames)
getState(r) == getColumnValue(r, StateNames)

----------------------------------------------------------------------------
(* Dates.  A time value is a whole number of minutes since the epoch      *)
(* (1 unit = 60,000 ms): every date string of the model denotes a whole   *)
(* minute, so ceil(ms / 86,400,000) is ceil(minutes / 1440).              *)

MinutesPerDay == 24 * 60

\* A time zone: standard offset from UTC in minutes, and whether it keeps
\* daylight saving time by the US rule (second Sunday of March 02:00 to
\* first Sunday of November 02:00, one hour).
UTCZone == [std |-> 0, dst |-> FALSE]
KolkataZone == [std |-> 330, dst |-> FALSE]
NewYorkZone == [std |-> -300, dst |-> TRUE]
Zones == {UTCZone, KolkataZone, NewYorkZone}

\* days since 1970-01-01 of the civil date y-m-d (proleptic Gregorian), m in 1..12
DaysFromCivil(y, m, d) ==
  LET yy == IF m <= 2 THEN y - 1 ELSE y
      era == yy \div 400
      yoe == yy - era * 400
      mp == IF m > 2 THEN m - 3 ELSE m + 9
      doy == (153 * mp + 2) \div 5 + d - 1
      doe == yoe * 365 + yoe \div 4 - yoe \div 100 + doy
  IN era * 146097 + doe - 719468

\* the civil year of a day number
YearFromDays(z) ==
  LET OfMonth(yoe, era, m) == yoe + era * 400 + (IF m <= 2 THEN 1 ELSE 0)
      OfMp(yoe, era, mp) == OfMonth(yoe, era, IF mp < 10 THEN mp + 3 ELSE mp - 9)
      OfDoy(yoe, era, doy) == OfMp(yoe, era, (5 * doy + 2) \div 153)
      OfYoe(doe, era, yoe) ==
        OfDoy(yoe, era, doe - (365 * yoe + yoe \div 4 - yoe \div 100))
      OfDoe(doe, era) ==
        OfYoe(doe, era,
              (doe - doe \div 1460 + doe \div 36524 - doe \div 146096) \div 365)
      OfEra(zz, era) == OfDoe(zz - era * 146097, era)
      OfDays(zz) == OfEra(zz, zz \div 146097)
  IN OfDays(z + 719468)

\* 0 = Sunday; 1970-01-01 was a Thursday
WeekDay(days) == (days + 4) % 7

\* day number of the first Sunday on or after the civil date y-m-d
SundayOnOrAfter(y, m, d) ==
  LET From(n) == n + ((7 - WeekDay(n)) % 7) IN From(DaysFromCivil(y, m, d))

\* is daylight saving time in force at local wall-clock minute t
InDst(zone, t) ==
  /\ zone.dst
  /\ LET Within(y) ==
           /\ SundayOnOrAfter(y, 3, 8) * MinutesPerDay + 120 <= t
           /\ t < SundayOnOrAfter(y, 11, 1) * MinutesPerDay + 120
     IN Within(YearFromDays(t \div MinutesPerDay))

\* UTC time value of a local wall-clock minute
LocalToUTC(zone, t) == t - (zone.std + (IF InDst(zone, t) THEN 60 ELSE 0))

\* A Date object: nan is TRUE for an Invalid Date
InvalidDate == [nan |-> TRUE, time |-> 0]
DateAt(t) == [nan |-> FALSE, time |-> t]

\* new Date(year, monthIndex, day, hours, minutes): local time; a year of
\* 0..99 means 1900 + year; month index and day overflow into the
\* following (or preceding) months
NewDateLocal(year, monthIndex, day, hours, minutes) ==
  LET OfDay(dayNo) ==
        DateAt(LocalToUTC(tz, dayNo * MinutesPerDay + hours * 60 + minutes))
      OfYear(yr) ==
        OfDay(DaysFromCivil(yr + (monthIndex \div 12), (monthIndex % 12) + 1, 1)
                + day - 1)
  IN OfYear(IF year >= 0 /\ year <= 99 THEN 1900 + year ELSE year)

RECURSIVE Dec(_)
\* Number.prototype.toString of a non-negative integer
Dec(n) ==
  IF n < 10 THEN <<Digits[n + 1]>>
  ELSE Dec(n \div 10) \o <<Digits[(n % 10) + 1]>>

\* Number.prototype.toString of an integer
NumberToString(n) == IF n < 0 THEN <<"-">> \o Dec(0 - n) ELSE Dec(n)

Pad2(n) == IF n < 10 THEN <<"0">> \o Dec(n) ELSE Dec(n)

RECURSIVE Split(_, _)
\* String.prototype.split on a one-character separator
Split(s, sep) ==
  IF \A i \in 1..Len(s) : s[i] # sep THEN <<s>>
  ELSE LET At(i) == <<SubSeq(s, 1, i - 1)>> \o Split(SubSeq(s, i + 1, Len(s)), sep)
       IN At(Min({j \in 1..Len(s) : s[j] = sep}))

\* \d{lo,hi} matching the whole of s
DigitRun(s, lo, hi) == IsDigits(s) /\ Len(s) >= lo /\ Len(s) <= hi

\* ^(\d{1,2})\/(\d{1,2})\/(\d{4})\s+(\d{1,2}):(\d{2})$ :
\* <<>> for no match, else <<<<g1, g2, g3, g4, g5>>>>
Match1(s) ==
  LET Groups(p, year, rest, clock) ==
        IF /\ DigitRun(p[1], 1, 2)
           /\ DigitRun(p[2], 1, 2)
           /\ DigitRun(year, 4, 4)
           /\ rest # <<>>
           /\ rest[1] \in WhiteSpace
           /\ Len(clock) = 2
           /\ DigitRun(clock[1], 1, 2)
           /\ DigitRun(clock[2], 2, 2)
        THEN <<<<p[1], p[2], year, clock[1], clock[2]>>>>
        ELSE <<>>
      Tail3(p, rest) == Groups(p, SubSeq(p[3], 1, 4), rest, Split(TrimStart(rest), ":"))
      Parts(p) ==
        IF Len(p) = 3 /\ Len(p[3]) >= 4
        THEN Tail3(p, SubSeq(p[3], 5, Len(p[3])))
        ELSE <<>>
  IN Parts(Split(s, "/"))

\* ^(\d{1,2})\/(\d{1,2})\/(\d{2})$
Match2(s) ==
  LET Groups(p) ==
        IF /\ Len(p) = 3
           /\ DigitRun(p[1], 1, 2)
           /\ DigitRun(p[2], 1, 2)
           /\ DigitRun(p[3], 2, 2)
        THEN <<<<p[1], p[2], p[3]>>>>
        ELSE <<>>
  IN Groups(Split(s, "/"))

\* the number of days of month m (1..12) of year y
DaysInMonth(y, m) ==
  IF m = 12 THEN 31 ELSE DaysFromCivil(y, m + 1, 1) - DaysFromCivil(y, m, 1)

\* new Date(string), the general-purpose constructor, for the forms the
\* model feeds it:
\*   YYYY-MM-DD          the ECMAScript date-only form, taken as UTC;
\*   M/D/YYYY [H:MM]     US form of the browsers' legacy parser, local time;
\*   M/D/YY              the same with a two-digit year, 00-49 meaning 20YY
\*                       and 50-99 meaning 19YY;
\* an Invalid Date for anything else.
DateFromString(s) ==
  LET Utc(y, m, d) ==
        IF m >= 1 /\ m <= 12 /\ d >= 1 /\ d <= DaysInMonth(y, m)
        THEN DateAt(DaysFromCivil(y, m, d) * MinutesPerDay)
        ELSE InvalidDate
      Local(y, m, d, hh, mi) ==
        IF m >= 1 /\ m <= 12 /\ d >= 1 /\ d <= 31 /\ hh <= 23 /\ mi <= 59
        THEN NewDateLocal(y, m - 1, d, hh, mi)
        ELSE InvalidDate
      Year(digits, yy) ==
        IF Len(digits) = 4 THEN yy ELSE IF yy < 50 THEN 2000 + yy ELSE 1900 + yy
      Fields(iso, us, m1) ==
        IF /\ Len(iso) = 3
           /\ DigitRun(iso[1], 4, 4) /\ DigitRun(iso[2], 2, 2) /\ DigitRun(iso[3], 2, 2)
        THEN <<"utc", iso[1], iso[2], iso[3], <<"0">>, <<"0">>>>
        ELSE IF m1 # <<>>
        THEN <<"local", m1[1][3], m1[1][1], m1[1][2], m1[1][4], m1[1][5]>>
        ELSE IF /\ Len(us) = 3
                /\ DigitRun(us[1], 1, 2) /\ DigitRun(us[2], 1, 2)
                /\ Len(us[3]) \in {2, 4} /\ DigitRun(us[3], 2, 4)
        THEN <<"local", us[3], us[1], us[2], <<"0">>, <<"0">>>>
        ELSE <<"invalid">>
      Numbers(f) == [k \in 2..6 |-> parseInt(f[k])]
      OfNumbers(f, n) ==
        IF f[1] = "utc" THEN Utc(n[2], n[3], n[4])
        ELSE Local(Year(f[2], n[2]), n[3], n[4], n[5], n[6])
      OfFields(f) ==
        IF f[1] = "invalid" THEN InvalidDate ELSE OfNumbers(f, Numbers(f))
  IN OfFields(Fields(Split(s, "-"), Split(s, "/"), Match1(s)))

\* parseDate of the local variant: <<>> is null
parseDate(s) ==
  LET FullYear(year) == IF year > 50 THEN 1900 + year ELSE 2000 + year
      Valid(parsed) == IF ~parsed.nan THEN <<parsed>> ELSE <<>>
      \* the year, month and day taken from the groups of a match, if any
      Fields(match1, match2) ==
        IF match1 # <<>>
        THEN <<[k \in 1..3 |-> parseInt(match1[1][k])]>>
        ELSE IF match2 # <<>>
        THEN <<[k \in 1..3 |-> parseInt(match2[1][k])], "two-digit year">>
        ELSE <<>>
      OfFields(f) ==
        IF Len(f) = 1 THEN <<NewDateLocal(f[1][3], f[1][1] - 1, f[1][2], 0, 0)>>
        ELSE IF Len(f) = 2
        THEN <<NewDateLocal(FullYear(f[1][3]), f[1][2] - 1, f[1][1], 0, 0)>>
        ELSE Valid(DateFromString(s))
  IN IF s = EmptyStr \/ s = Unknown \/ s = Dash THEN <<>>
     ELSE OfFields(Fields(Match1(s), Match2(s)))

\* val === 'Unknown' ? '-' : val
OrDash(val) == IF val = Unknown THEN Dash ELSE val

getCreatedOn(r) == OrDash(getColumnValue(r, CreatedOnNames))

getClosedOn(r) == OrDash(getColumnValue(r, ClosedOnNames))

getId(r) == OrDash(getColumnValue(r, IdNames))

Abs(x) == IF x < 0 THEN 0 - x ELSE x

\* Math.ceil(a / b) for an integer a and b > 0
CeilDiv(a, b) == IF a >= 0 THEN (a + b - 1) \div b ELSE 0 - ((0 - a) \div b)

\* the difference without Math.abs
DiffTimeSigned(createdDate, closedDate) == closedDate.time - createdDate.time

\* Math.abs(closedDate.getTime() - createdDate.getTime())
DiffTime(createdDate, closedDate) == Abs(closedDate.time - createdDate.time)

\* a test of the closed date alone
NotParsedClosedOnly(createdDate, closedDate) == closedDate = <<>>

\* if (!createdDate || !closedDate)
NotParsed(createdDate, closedDate) == createdDate = <<>> \/ closedDate = <<>>

\* the outcome of a call that throws: getTime of null
TypeError == <<"T", "y", "p", "e", "E", "r", "r", "o", "r">>

\* getResolutionDays of the local variant
getResolutionDays(r) ==
  LET Between(createdDate, closedDate) ==
        IF NotParsed(createdDate, closedDate) THEN Dash
        ELSE IF createdDate = <<>> \/ closedDate = <<>> THEN TypeError
        ELSE NumberToString(CeilDiv(DiffTime(createdDate[1], closedDate[1]),
                                    MinutesPerDay))
      Days(createdStr, closedStr) ==
        IF closedStr = Dash \/ closedStr = Unknown THEN Dash
        ELSE Between(parseDate(createdStr), parseDate(closedStr))
  IN Days(getCreatedOn(r), getClosedOn(r))

created_on == <<"c", "r", "e", "a", "t", "e", "d", "_", "o", "n">>
closed_on == <<"c", "l", "o", "s", "e", "d", "_", "o", "n">>

\* !row.f of the remote variant: the property is undefined or ''
Falsy(r, f) == ~Has(r, f) \/ Get(r, f) = EmptyStr

\* getResolutionDays of the remote variant
getResolutionDaysRemote(r) ==
  LET Between(created, closed) ==
        IF created.nan \/ closed.nan THEN Dash
        ELSE NumberToString(CeilDiv(DiffTime(created, closed), MinutesPerDay))
  IN IF Falsy(r, closed_on) \/ Falsy(r, created_on) THEN Dash
     ELSE Between(DateFromString(Get(r, created_on)),
                  DateFromString(Get(r, closed_on)))

----------------------------------------------------------------------------
(* Local variant: aggregation, average resolution time, filter (the body  *)
(* of IssueDashboard that runs on every render)                           *)

TopN == 10

\* s.map(Op)
SeqMap(Op(_), s) == IF s = <<>> THEN <<>> ELSE [i \in 1..Len(s) |-> Op(s[i])]

\* a reducer step that enters a new bucket with the count 0
BumpFromZero(acc, v) ==
  IF Has(acc, v)
  THEN [i \in 1..Len(acc) |-> IF acc[i][1] = v THEN <<v, acc[i][2] + 1>> ELSE acc[i]]
  ELSE Append(acc, <<v, 0>>)

\* acc[v] = (acc[v] || 0) + 1
Bump(acc, v) ==
  IF Has(acc, v)
  THEN [i \in 1..Len(acc) |-> IF acc[i][1] = v THEN <<v, acc[i][2] + 1>> ELSE acc[i]]
  ELSE Append(acc, <<v, 1>>)

RECURSIVE Reduce(_, _)
\* vals.reduce((acc, v) => Bump(acc, v), acc)
Reduce(acc, vals) ==
  IF vals = <<>> THEN acc ELSE Reduce(Bump(acc, Head(vals)), Tail(vals))

\* a filter predicate that resolves the status for the kind 'type'
MatchesFilterSlip(r, f) ==
  IF f.type = "status" THEN getStatus(r) = f.value
  ELSE IF f.type = "priority" THEN getPriority(r) = f.value
  ELSE IF f.type = "type" THEN getStatus(r) = f.value
  ELSE IF f.type = "state" THEN getState(r) = f.value
  ELSE TRUE

\* the predicate of data.filter
MatchesFilter(r, f) ==
  IF f.type = "status" THEN getStatus(r) = f.value
  ELSE IF f.type = "priority" THEN getPriority(r) = f.value
  ELSE IF f.type = "type" THEN getType(r) = f.value
  ELSE IF f.type = "state" THEN getState(r) = f.value
  ELSE TRUE

RECURSIVE FilterRows(_, _)
FilterRows(d, f) ==
  IF d = <<>> THEN <<>>
  ELSE (IF MatchesFilter(Head(d), f) THEN <<Head(d)>> ELSE <<>>) \o FilterRows(Tail(d), f)

FilteredDataOf(d, sel) == IF sel # <<>> THEN FilterRows(d, sel[1]) ELSE <<>>

\* the status counted over the records the current filter selects
statusCountsOfSelection(d) ==
  Reduce(<<>>, SeqMap(getStatus, IF selectedFilter # <<>>
                                 THEN FilterRows(d, selectedFilter[1]) ELSE d))

statusCounts(d) == Reduce(<<>>, SeqMap(getStatus, d))
priorityCounts(d) == Reduce(<<>>, SeqMap(getPriority, d))
typeCounts(d) == Reduce(<<>>, SeqMap(getType, d))
stateCounts(d) == Reduce(<<>>, SeqMap(getState, d))

\* Object.entries(obj).map(([name, value]) => ({ name, value }))
ChartDataOf(obj) ==
  LET Entries(ks) ==
        IF ks = <<>> THEN <<>>
        ELSE [i \in 1..Len(ks) |-> [name |-> ks[i], value |-> Get(obj, ks[i])]]
  IN Entries(ObjectKeys(obj))

RECURSIVE InsertByValueDesc(_, _)
\* x placed behind every bucket whose count is not smaller (stable)
InsertByValueDesc(sorted, x) ==
  IF sorted = <<>> THEN <<x>>
  ELSE IF Head(sorted).value >= x.value
  THEN <<Head(sorted)>> \o InsertByValueDesc(Tail(sorted), x)
  ELSE <<x>> \o sorted

RECURSIVE SortedInto(_, _)
SortedInto(sorted, s) ==
  IF s = <<>> THEN sorted ELSE SortedInto(InsertByValueDesc(sorted, Head(s)), Tail(s))

\* the buckets left in their order
Unsorted(s) == s

\* .sort((a, b) => b.value - a.value)
SortByValueDesc(s) == SortedInto(<<>>, s)

\* .slice(0, n)
SliceFirst(s, n) == IF Len(s) <= n THEN s ELSE SubSeq(s, 1, n)

StatusDataOf(d) == ChartDataOf(statusCounts(d))
PriorityDataOf(d) == ChartDataOf(priorityCounts(d))
TypeDataOf(d) == ChartDataOf(typeCounts(d))
StateDataOf(d) == SliceFirst(SortByValueDesc(ChartDataOf(stateCounts(d))), TopN)

RECURSIVE resolutionTimes(_)
\* data.map(days !== '-' ? parseInt(days) : null).filter(d => d !== null)
resolutionTimes(d) ==
  IF d = <<>> THEN <<>>
  ELSE LET Kept(days) == IF days # Dash THEN <<parseInt(days)>> ELSE <<>>
       IN Kept(getResolutionDays(Head(d))) \o resolutionTimes(Tail(d))

RECURSIVE Sum(_)
Sum(s) == IF s = <<>> THEN 0 ELSE Head(s) + Sum(Tail(s))

\* (total / n).toFixed(1) for integers total >= 0, n > 0: the nearest
\* tenth, the larger one on a tie.  (A tie at a quotient that is no binary
\* fraction needs n >= 20 records with a duration, beyond the datasets here.)
ToFixed1(total, n) ==
  LET Digits1(tenths) == Dec(tenths \div 10) \o <<".">> \o Dec(tenths % 10)
      Rounded(q, r) == Digits1(IF 2 * r >= n THEN q + 1 ELSE q)
  IN Rounded((10 * total) \div n, (10 * total) % n)

\* the total divided by the number of all records
AvgOverAllRecords(d) ==
  LET Avg(times) ==
        IF Len(times) > 0 THEN ToFixed1(Sum(times), Len(d)) ELSE <<"0">>
  IN Avg(resolutionTimes(d))

AvgResolutionTimeOf(d) ==
  LET Avg(times) ==
        IF Len(times) > 0 THEN ToFixed1(Sum(times), Len(times)) ELSE <<"0">>
  IN Avg(resolutionTimes(d))

\* the render that follows every state update
Render ==
  /\ statusData' = StatusDataOf(data')
  /\ priorityData' = PriorityDataOf(data')
  /\ typeData' = TypeDataOf(data')
  /\ stateData' = StateDataOf(data')
  /\ avgResolutionTime' = AvgResolutionTimeOf(data')
  /\ filteredData' = FilteredDataOf(data', selectedFilter')

\* the harness of the pure helpers at rest
HelperIdle ==
  /\ row = <<>>
  /\ possibleNames = <<>>
  /\ columnValue = EmptyStr
  /\ phase = "idle"
  /\ dateStr = EmptyStr
  /\ parsedDate = <<>>
  /\ resolutionDays = <<>>
  /\ resolutionDaysRemote = <<>>

\* the local variant runs: the state of the remote variant stays as constructed
LocalVariant ==
  /\ variant = "local"
  /\ stats = <<>>
  /\ error = EmptyStr
  /\ dataBeforeLoad = <<>>
  /\ dataSource = EmptyStr
  /\ fresh = [data |-> FALSE, stats |-> FALSE]

\* the dashboard as constructed (the useState initial values and the
\* first render of them)
DashboardInitial ==
  /\ data = <<>>
  /\ loading = FALSE
  /\ fileName = EmptyStr
  /\ selectedFilter = <<>>
  /\ showModal = FALSE
  /\ searchId = EmptyStr
  /\ searchResult = <<>>
  /\ showSearchModal = FALSE
  /\ pending = <<>>
  /\ statusData = <<>>
  /\ priorityData = <<>>
  /\ typeData = <<>>
  /\ stateData = <<>>
  /\ avgResolutionTime = <<"0">>
  /\ filteredData = <<>>

----------------------------------------------------------------------------
(* Resolver harness: a record drawn from a bounded set, resolved for the  *)
(* status or for the state aliases.                                       *)

ResolverKeys ==
  {<<"S", "t", "a", "t", "u", "s">>,
   <<"S", "t", "a", "t", "u", "s", " ">>,
   <<"S", "T", "A", "T", "U", "S">>,
   <<" ", "s", "t", "a", "t", "u", "s">>,
   <<"S", "t", "a", "t", "e">>,
   <<"S", "T", "A", "T", "E">>,
   <<"S", "t", "a", "t", "e", "s">>,
   <<"S", "T", "A", "T", "E", "S">>}

ResolverValues ==
  {EmptyStr,
   <<"O", "p", "e", "n">>,
   <<" ", "O", "p", "e", "n">>,
   <<"C", "l", "o", "s", "e", "d">>}

\* the records with at most n keys of K, values of V
RowsOver(K, V, n) ==
  UNION {{r \in [1..m -> K \X V] :
            \A i, j \in 1..m : i # j => r[i][1] # r[j][1]} : m \in 0..n}

ResolverRows == RowsOver(ResolverKeys, ResolverValues, MaxKeys)

InitResolver ==
  /\ row \in ResolverRows
  /\ possibleNames = <<>>
  /\ columnValue = EmptyStr
  /\ phase = "input"
  /\ tz = UTCZone
  /\ dateStr = EmptyStr
  /\ parsedDate = <<>>
  /\ resolutionDays = <<>>
  /\ resolutionDaysRemote = <<>>
  /\ DashboardInitial
  /\ LocalVariant

CallGetStatus ==
  /\ phase = "input"
  /\ possibleNames' = StatusNames
  /\ columnValue' = getStatus(row)
  /\ phase' = "resolved"
  /\ UNCHANGED <<row, tz, dateStr, parsedDate, resolutionDays, resolutionDaysRemote,
                 stateVars, renderVars, appVars>>

CallGetState ==
  /\ phase = "input"
  /\ possibleNames' = StateNames
  /\ columnValue' = getState(row)
  /\ phase' = "resolved"
  /\ UNCHANGED <<row, tz, dateStr, parsedDate, resolutionDays, resolutionDaysRemote,
                 stateVars, renderVars, appVars>>

NextResolver == CallGetStatus \/ CallGetState

SpecResolver == InitResolver /\ [][NextResolver]_vars

----------------------------------------------------------------------------
(* Column Resolver: claims C1 - C3 *)

\* alias name matches key: exactly, or once the key is trimmed and lowercased
AliasMatchesKey(name, key) ==
  key = name \/ toLowerCase(trim(key)) = toLowerCase(name)

\* positions of the entries of r whose key matches the alias names[n]
EntriesOfAlias(r, names, n) ==
  {i \in 1..Len(r) : AliasMatchesKey(names[n], r[i][1]) /\ r[i][2] # EmptyStr}

\* positions of the entries of r with a matching key and a non-empty value
NonEmptyMatches(r, names) ==
  UNION {EntriesOfAlias(r, names, n) : n \in 1..Len(names)}

\* C1: if some alias matches a key (exactly or trim/case-insensitively) whose
\* value is non-empty, the resolver returns the trimmed value of such an
\* entry, never "Unknown" and never the empty string.
C1_NonEmptyMatchReturned ==
  (phase = "resolved" /\ NonEmptyMatches(row, possibleNames) # {})
    => /\ columnValue \in {trim(row[i][2]) : i \in NonEmptyMatches(row, possibleNames)}
       /\ columnValue # Unknown
       /\ columnValue # EmptyStr

\* C2: when no alias matches a non-empty value the result is exactly
\* "Unknown"; a key holding '' counts as absent in both passes.
C2_UnknownWhenNoMatch ==
  (phase = "resolved" /\ NonEmptyMatches(row, possibleNames) = {})
    => columnValue = Unknown

\* aliases that are own keys of r with a non-empty value
ExactAliases(r, names) ==
  {n \in 1..Len(names) : Has(r, names[n]) /\ Get(r, names[n]) # EmptyStr}

\* aliases matched by some key of r with a non-empty value
MatchedAliases(r, names) ==
  {n \in 1..Len(names) : EntriesOfAlias(r, names, n) # {}}

\* every entry of r whose key matches an alias holds a non-empty value
MatchesAllNonEmpty(r, names) ==
  \A i \in 1..Len(r) :
    (\E n \in 1..Len(names) : AliasMatchesKey(names[n], r[i][1])) => r[i][2] # EmptyStr

\* C3: when two aliases both match keys of the record (with non-empty
\* values), the value of the earlier-listed alias is returned, whatever the
\* order of the keys: for exact matches, and for matches found only by the
\* fallback pass.
C3_EarlierAliasWins ==
  (phase = "resolved" /\ MatchesAllNonEmpty(row, possibleNames)) =>
    /\ Cardinality(ExactAliases(row, possibleNames)) >= 2
         => columnValue =
              trim(Get(row, possibleNames[Min(ExactAliases(row, possibleNames))]))
    /\ (/\ ExactAliases(row, possibleNames) = {}
        /\ Cardinality(MatchedAliases(row, possibleNames)) >= 2)
         => columnValue \in
              {trim(row[i][2]) :
                 i \in EntriesOfAlias(row, possibleNames,
                                      Min(MatchedAliases(row, possibleNames)))}

\* the exact half of C3 alone
C3_ExactPrecedence ==
  (phase = "resolved" /\ Cardinality(ExactAliases(row, possibleNames)) >= 2)
    => columnValue =
         trim(Get(row, possibleNames[Min(ExactAliases(row, possibleNames))]))

----------------------------------------------------------------------------
(* Date harness: a record with created_on and closed_on drawn from a      *)
(* bounded set of date strings, in a time zone drawn from Zones; the      *)
(* date parser and the two getResolutionDays are applied to it.           *)

NotADate == <<"n", "o", "t", " ", "a", " ", "d", "a", "t", "e">>
Sentinels == {EmptyStr, Unknown, Dash}

\* calendar dates <<year, month, day>> the date strings are written from
CalDates == {<<2024, 1, 1>>, <<2024, 1, 3>>, <<2024, 3, 5>>,
             <<2024, 11, 1>>, <<2024, 11, 5>>}
Clocks == {<<0, 0>>, <<10, 30>>}
Formats == {"M/D/YYYY H:MM", "D/M/YY", "M/D/YYYY", "YYYY-MM-DD"}

\* the calendar date cd written in format f (clock ck where f has one)
FormatDate(f, cd, ck) ==
  CASE f = "M/D/YYYY H:MM" ->
         Dec(cd[2]) \o <<"/">> \o Dec(cd[3]) \o <<"/">> \o Dec(cd[1])
           \o <<" ">> \o Dec(ck[1]) \o <<":">> \o Pad2(ck[2])
    [] f = "D/M/YY" ->
         Dec(cd[3]) \o <<"/">> \o Dec(cd[2]) \o <<"/">> \o Pad2(cd[1] % 100)
    [] f = "M/D/YYYY" ->
         Dec(cd[2]) \o <<"/">> \o Dec(cd[3]) \o <<"/">> \o Dec(cd[1])
    [] f = "YYYY-MM-DD" ->
         Dec(cd[1]) \o <<"-">> \o Pad2(cd[2]) \o <<"-">> \o Pad2(cd[3])

\* dates around the two-digit-year pivot, and a day the month does not have
PivotDates == {<<2050, 6, 15>>, <<1951, 6, 15>>}
OverflowDates == {<<2024, 2, 30>>}
ExplicitFormats == {"M/D/YYYY H:MM", "D/M/YY"}

DateStrings ==
  Sentinels \cup {NotADate}
    \cup {FormatDate(f, cd, ck) : f \in Formats, cd \in CalDates, ck \in Clocks}
    \cup {FormatDate(f, cd, <<10, 30>>) :
            f \in ExplicitFormats, cd \in PivotDates \cup OverflowDates}

\* the record holding created c and closed d; <<>> for a missing column
DateRow(c, d) ==
  (IF c = <<>> THEN <<>> ELSE <<<<created_on, c[1]>>>>)
    \o (IF d = <<>> THEN <<>> ELSE <<<<closed_on, d[1]>>>>)

OptionalDateStrings == {<<>>} \cup {<<x>> : x \in DateStrings}

DateRows == {DateRow(c, d) : c \in OptionalDateStrings, d \in OptionalDateStrings}

InitDates ==
  /\ row \in DateRows
  /\ tz \in Zones
  /\ possibleNames = <<>>
  /\ columnValue = EmptyStr
  /\ phase = "input"
  /\ dateStr = EmptyStr
  /\ parsedDate = <<>>
  /\ resolutionDays = <<>>
  /\ resolutionDaysRemote = <<>>
  /\ DashboardInitial
  /\ LocalVariant

\* parseDate applied to a date cell of the record
CallParseDate ==
  /\ phase = "input"
  /\ \E i \in 1..Len(row) :
       /\ dateStr' = row[i][2]
       /\ parsedDate' = parseDate(row[i][2])
  /\ phase' = "parsed"
  /\ UNCHANGED <<row, tz, possibleNames, columnValue, resolutionDays,
                 resolutionDaysRemote, stateVars, renderVars, appVars>>

\* the local variant renders getResolutionDays(row)
CallGetResolutionDays ==
  /\ phase \in {"input", "days"}
  /\ resolutionDays = <<>>
  /\ resolutionDays' = <<getResolutionDays(row)>>
  /\ phase' = "days"
  /\ UNCHANGED <<row, tz, possibleNames, columnValue, dateStr, parsedDate,
                 resolutionDaysRemote, stateVars, renderVars, appVars>>

\* the remote variant renders getResolutionDays(row)
CallGetResolutionDaysRemote ==
  /\ phase \in {"input", "days"}
  /\ resolutionDaysRemote = <<>>
  /\ resolutionDaysRemote' = <<getResolutionDaysRemote(row)>>
  /\ phase' = "days"
  /\ UNCHANGED <<row, tz, possibleNames, columnValue, dateStr, parsedDate,
                 resolutionDays, stateVars, renderVars, appVars>>

NextDates ==
  \/ CallParseDate
  \/ CallGetResolutionDays
  \/ CallGetResolutionDaysRemote

SpecDates == InitDates /\ [][NextDates]_vars

----------------------------------------------------------------------------
(* Resolution days: claims C8 - C10 *)

\* the record with created and closed swapped
SwapDates(r) ==
  [i \in 1..Len(r) |->
     IF r[i][1] = created_on /\ Has(r, closed_on) THEN <<created_on, Get(r, closed_on)>>
     ELSE IF r[i][1] = closed_on /\ Has(r, created_on) THEN <<closed_on, Get(r, created_on)>>
     ELSE r[i]]

HasBothDates(r) == Has(r, created_on) /\ Has(r, closed_on)

\* C8: local getResolutionDays returns "-" when closedOn is absent or a
\* sentinel, "-" when created or closed fails to parse, otherwise the decimal
\* string of ceil(|closed - created| / one day); in particular two dates
\* written in the same format that lie d whole days apart give the string of d.
C8_LocalResolutionDays ==
  resolutionDays # <<>> =>
    LET createdDate == parseDate(getCreatedOn(row))
        closedDate == parseDate(getClosedOn(row))
    IN /\ getClosedOn(row) \in Sentinels => resolutionDays[1] = Dash
       /\ (createdDate = <<>> \/ closedDate = <<>>) => resolutionDays[1] = Dash
       /\ (createdDate # <<>> /\ closedDate # <<>>)
            => resolutionDays[1] =
                 Dec(CeilDiv(Abs(closedDate[1].time - createdDate[1].time),
                             MinutesPerDay))
       /\ \A f \in Formats : \A c1, c2 \in CalDates : \A k1, k2 \in Clocks :
            row = DateRow(<<FormatDate(f, c1, k1)>>, <<FormatDate(f, c2, k2)>>)
              => resolutionDays[1] =
                   Dec(Abs(DaysFromCivil(c2[1], c2[2], c2[3])
                             - DaysFromCivil(c1[1], c1[2], c1[3])))

\* C9: in both variants a result other than "-" is the decimal string of a
\* non-negative integer, and swapping created and closed leaves it unchanged.
C9_NonNegativeSymmetric ==
  /\ (resolutionDays # <<>> /\ resolutionDays[1] # Dash)
       => /\ IsDigits(resolutionDays[1])
          /\ HasBothDates(row) => getResolutionDays(SwapDates(row)) = resolutionDays[1]
  /\ (resolutionDaysRemote # <<>> /\ resolutionDaysRemote[1] # Dash)
       => /\ IsDigits(resolutionDaysRemote[1])
          /\ HasBothDates(row)
               => getResolutionDaysRemote(SwapDates(row)) = resolutionDaysRemote[1]

\* closed lies before created, both variants have answered a number of days
\* other than 0
C9_Witness ==
  /\ resolutionDays # <<>> /\ resolutionDaysRemote # <<>>
  /\ HasBothDates(row)
  /\ resolutionDays[1] \notin {Dash, <<"0">>}
  /\ resolutionDaysRemote[1] \notin {Dash, <<"0">>}
  /\ parseDate(getCreatedOn(row))[1].time > parseDate(getClosedOn(row))[1].time

\* the date in column f of r is missing, a sentinel or not a date
BadDate(r, f) == ~Has(r, f) \/ Get(r, f) \in Sentinels \cup {NotADate}

\* C10: in both variants getResolutionDays never throws, and a record whose
\* created or closed date is missing, a sentinel or not a parseable date
\* yields "-", never a number; parseDate answers null for the sentinels.
C10_BadDatesGiveDash ==
  /\ resolutionDays # <<>> =>
       /\ resolutionDays[1] # TypeError
       /\ (BadDate(row, created_on) \/ BadDate(row, closed_on))
            => resolutionDays[1] = Dash
  /\ resolutionDaysRemote # <<>> =>
       /\ resolutionDaysRemote[1] # TypeError
       /\ (BadDate(row, created_on) \/ BadDate(row, closed_on))
            => resolutionDaysRemote[1] = Dash
  /\ (phase = "parsed" /\ dateStr \in Sentinels) => parsedDate = <<>>

\* the created date is unusable, the closed date is a date, and both
\* variants have answered
C10_Witness ==
  /\ resolutionDays = <<Dash>> /\ resolutionDaysRemote = <<Dash>>
  /\ BadDate(row, created_on)
  /\ ~BadDate(row, closed_on)

----------------------------------------------------------------------------
(* The date parser: claims C11, C12 *)

\* the civil date <<year, month, day>> of a day number
CivilFromDays(z) ==
  LET zz == z + 719468
      era == zz \div 146097
      doe == zz % 146097
      yoe == (doe - doe \div 1460 + doe \div 36524 - doe \div 146096) \div 365
      doy == doe - (365 * yoe + yoe \div 4 - yoe \div 100)
      mp == (5 * doy + 2) \div 153
      d == doy - (153 * mp + 2) \div 5 + 1
      m == IF mp < 10 THEN mp + 3 ELSE mp - 9
  IN <<yoe + era * 400 + (IF m <= 2 THEN 1 ELSE 0), m, d>>

\* the local wall-clock minute of a time value
UTCToLocal(zone, u) ==
  CHOOSE l \in {u + zone.std, u + zone.std + 60} : LocalToUTC(zone, l) = u

\* <<getFullYear(), getMonth() + 1, getDate()>> of a Date
LocalCivil(date) == CivilFromDays(UTCToLocal(tz, date.time) \div MinutesPerDay)

\* the dates the strings of the explicit formats are written from
WrittenDates == CalDates \cup PivotDates \cup OverflowDates

\* C11: parseDate of a string M/D/YYYY H:MM answers by the first format: the
\* date has calendar year YYYY, month M and day D (month first), whatever
\* the time part.
C11_MonthFirstWithTime ==
  \A cd \in WrittenDates : \A ck \in Clocks :
    (phase = "parsed" /\ dateStr = FormatDate("M/D/YYYY H:MM", cd, ck))
      => /\ parsedDate # <<>>
         /\ ~parsedDate[1].nan
         /\ LocalCivil(parsedDate[1]) = cd

\* the same for the strings written from the days their month has
C11_MonthFirstOnCalendarDays ==
  \A cd \in CalDates \cup PivotDates : \A ck \in Clocks :
    (phase = "parsed" /\ dateStr = FormatDate("M/D/YYYY H:MM", cd, ck))
      => /\ parsedDate # <<>>
         /\ ~parsedDate[1].nan
         /\ LocalCivil(parsedDate[1]) = cd

\* the full year the claim gives for a two-digit year
PivotYear(yy) == IF yy > 50 THEN 1900 + yy ELSE 2000 + yy

\* C12: parseDate of a string D/M/YY answers by the second format: the date
\* has day D, month M (day first) and the year 1900 + YY when YY > 50, else
\* 2000 + YY; the month-first reading of the general constructor never
\* shows.
C12_DayFirstPivotYear ==
  \A cd \in WrittenDates :
    (phase = "parsed" /\ dateStr = FormatDate("D/M/YY", cd, <<0, 0>>))
      => /\ parsedDate # <<>>
         /\ ~parsedDate[1].nan
         /\ LocalCivil(parsedDate[1])
              = <<PivotYear(cd[1] % 100), cd[2], cd[3]>>

C12_DayFirstOnCalendarDays ==
  \A cd \in CalDates \cup PivotDates :
    (phase = "parsed" /\ dateStr = FormatDate("D/M/YY", cd, <<0, 0>>))
      => /\ parsedDate # <<>>
         /\ ~parsedDate[1].nan
         /\ LocalCivil(parsedDate[1])
              = <<PivotYear(cd[1] % 100), cd[2], cd[3]>>

----------------------------------------------------------------------------
(* Datasets *)

RowA ==
  <<<<<<"i", "d">>,
      <<"1">>>>,
    <<<<"S", "t", "a", "t", "u", "s">>,
      <<"O", "p", "e", "n">>>>,
    <<<<"P", "r", "i", "o", "r", "i", "t", "y">>,
      <<"U", "r", "g", "e", "n", "t", " ">>>>,
    <<<<"I", "s", "s", "u", "e", " ", "t", "r", "a", "c", "k", "e", "r">>,
      <<"B", "u", "g">>>>,
    <<<<"S", "t", "a", "t", "e">>,
      <<"S", "1">>>>,
    <<<<"c", "r", "e", "a", "t", "e", "d", "_", "o", "n">>,
      <<"1", "/", "1", "/", "2", "0", "2", "4">>>>,
    <<<<"c", "l", "o", "s", "e", "d", "_", "o", "n">>,
      <<"1", "/", "3", "/", "2", "0", "2", "4">>>>>>

RowB ==
  <<<<<<"I", "D">>,
      <<"2">>>>,
    <<<<"S", "T", "A", "T", "U", "S">>,
      <<"C", "l", "o", "s", "e", "d">>>>,
    <<<<"P", "r", "i", "o", "r", "i", "t", "y">>,
      <<>>>>,
    <<<<"T", "y", "p", "e">>,
      <<"B", "u", "g">>>>,
    <<<<"S", "t", "a", "t", "e">>,
      <<"S", "2">>>>,
    <<<<"c", "r", "e", "a", "t", "e", "d", "_", "o", "n">>,
      <<"3", "/", "5", "/", "2", "0", "2", "4", " ", "1", "0", ":", "3", "0">>>>,
    <<<<"c", "l", "o", "s", "e", "d", "_", "o", "n">>,
      <<>>>>>>

RowC ==
  <<<<<<"i", "d">>,
      <<"1", "0">>>>,
    <<<<"S", "t", "a", "t", "u", "s">>,
      <<"1", "0">>>>,
    <<<<"p", "r", "i", "o", "r", "i", "t", "y">>,
      <<"H", "i", "g", "h">>>>,
    <<<<"T", "y", "p", "e">>,
      <<"S", "u", "p", "p", "o", "r", "t">>>>,
    <<<<"S", "t", "a", "t", "e", "s">>,
      <<"S", "1">>>>,
    <<<<"c", "r", "e", "a", "t", "e", "d", "_", "o", "n">>,
      <<"1", "1", "/", "1", "/", "2", "0", "2", "4", " ", "0", ":", "0", "0">>>>,
    <<<<"c", "l", "o", "s", "e", "d", "_", "o", "n">>,
      <<"1", "1", "/", "5", "/", "2", "0", "2", "4", " ", "0", ":", "0", "0">>>>>>

RowD ==
  <<<<<<"i", "d">>,
      <<"2">>>>,
    <<<<"S", "t", "a", "t", "u", "s">>,
      <<"2">>>>,
    <<<<"P", "r", "i", "o", "r", "i", "t", "y">>,
      <<"U", "r", "g", "e", "n", "t">>>>,
    <<<<"S", "t", "a", "t", "e">>,
      <<"S", "3">>>>,
    <<<<"c", "l", "o", "s", "e", "d", "_", "o", "n">>,
      <<"5", "/", "3", "/", "2", "4">>>>>>

SampleRows == {RowA, RowB, RowC, RowD}

\* the datasets of at most MaxRows sample records
SampleDatasets == UNION {[1..n -> SampleRows] : n \in 0..MaxRows}

StateName(i) == <<"S">> \o Dec(i)
WideRow(i) == <<<<(<<"S", "t", "a", "t", "e">>), StateName(i)>>>>

\* k records with the states S1 .. Sk, then extra more records of state Sh
WideDataset(k, h, extra) ==
  [i \in 1..(k + extra) |-> IF i <= k THEN WideRow(i) ELSE WideRow(h)]

\* the wide datasets: MaxStates - 2 .. MaxStates distinct states, the first
\* or the last of them up to two more times at the end
WideDatasets ==
  UNION {{WideDataset(k, h, extra) : h \in {1, k}, extra \in 0..2} :
           k \in (MaxStates - 2)..MaxStates}

NoSuchValue == <<"N", "o", "S", "u", "c", "h", "V", "a", "l", "u", "e">>
FilterKinds == {"status", "priority", "type", "state"}

\* the buckets drawn for a kind of chart
ChartOf(kind) ==
  CASE kind = "status" -> statusData
    [] kind = "priority" -> priorityData
    [] kind = "type" -> typeData
    [] kind = "state" -> stateData

BucketNames(chart) == {chart[i].name : i \in 1..Len(chart)}

----------------------------------------------------------------------------
(* Local variant: the handlers that touch only view state *)

\* handleChartClick(type, name)
HandleChartClick(type, name) ==
  /\ selectedFilter' = <<[type |-> type, value |-> name]>>
  /\ showModal' = TRUE
  /\ UNCHANGED <<data, loading, fileName, searchId, searchResult,
                 showSearchModal, pending>>
  /\ Render

\* a click on a bucket of a chart, or a selection of a value no bucket has
ChartClick ==
  \E kind \in FilterKinds :
    \E name \in BucketNames(ChartOf(kind)) \cup {NoSuchValue} :
      HandleChartClick(kind, name)

\* onClick={() => setShowModal(false)}
DismissModal ==
  /\ showModal
  /\ showModal' = FALSE
  /\ UNCHANGED <<data, loading, fileName, selectedFilter, searchId,
                 searchResult, showSearchModal, pending>>
  /\ Render

\* onChange={(e) => setSearchId(e.target.value)}
SetSearchId(text) ==
  /\ data # <<>>
  /\ searchId' = text
  /\ UNCHANGED <<data, loading, fileName, selectedFilter, showModal,
                 searchResult, showSearchModal, pending>>
  /\ Render

\* data.find(row => getId(row).toString() === searchId.trim()): <<>> for undefined
FindById(d, id) ==
  LET First(hits) == IF hits = {} THEN <<>> ELSE <<d[Min(hits)]>>
  IN First({i \in 1..Len(d) : getId(d[i]) = id})

\* a search that forgets the result it had when nothing is found
HandleSearchClearing ==
  /\ data # <<>>
  /\ LET Show(found) ==
           /\ searchResult' = found
           /\ showSearchModal' = (found # <<>>)
         Search(id) == Show(IF id # EmptyStr THEN FindById(data, id) ELSE <<>>)
     IN Search(trim(searchId))
  /\ UNCHANGED <<data, loading, fileName, selectedFilter, showModal, searchId,
                 pending>>
  /\ Render

\* handleSearch (the Search button, or Enter in the search box); a blank
\* query returns at once, a query without a match only raises an alert
HandleSearch ==
  /\ data # <<>>
  /\ LET Show(found) ==
           IF found # <<>>
           THEN /\ searchResult' = found
                /\ showSearchModal' = TRUE
           ELSE UNCHANGED <<searchResult, showSearchModal>>
         Search(id) == Show(IF id # EmptyStr THEN FindById(data, id) ELSE <<>>)
     IN Search(trim(searchId))
  /\ UNCHANGED <<data, loading, fileName, selectedFilter, showModal, searchId,
                 pending>>
  /\ Render

\* onClick={() => setShowSearchModal(false)}
DismissSearchModal ==
  /\ showSearchModal
  /\ showSearchModal' = FALSE
  /\ UNCHANGED <<data, loading, fileName, selectedFilter, showModal, searchId,
                 searchResult, pending>>
  /\ Render

\* what the user types into the search box
SearchTexts == {<<"2">>, <<" ", "1", "0">>, <<"7">>, <<" ">>}

Typing == \E text \in SearchTexts : SetSearchId(text)

----------------------------------------------------------------------------
(* Local variant: file upload.  pending holds the parses and file reads   *)
(* that were started and have not called back yet.                        *)

\* file.name.split('.').pop()?.toLowerCase()
FileExtension(name) ==
  LET Last(parts) == toLowerCase(parts[Len(parts)])
  IN Last(Split(name, "."))

CsvExtension == <<"c", "s", "v">>
ExcelExtensions == {<<"x", "l", "s", "x">>, <<"x", "l", "s">>}

\* the sequence s without its i-th element
RemoveAt(s, i) == SubSeq(s, 1, i - 1) \o SubSeq(s, i + 1, Len(s))

\* handleFileUpload for a chosen file of the given name: Papa.parse or the
\* FileReader is started, or the file is rejected with an alert
HandleFileUpload(name) ==
  /\ fileName' = name
  /\ LET Start(ext) ==
           IF ext = CsvExtension
           THEN /\ loading' = TRUE
                /\ pending' = Append(pending, [op |-> "Papa.parse", arg |-> name])
           ELSE IF ext \in ExcelExtensions
           THEN /\ loading' = TRUE
                /\ pending' = Append(pending, [op |-> "FileReader", arg |-> name])
           ELSE /\ loading' = FALSE
                /\ pending' = pending
     IN Start(FileExtension(name))
  /\ UNCHANGED <<data, selectedFilter, showModal, searchId, searchResult,
                 showSearchModal>>
  /\ Render

\* complete: (results) => { setData(results.data); setLoading(false) }
PapaComplete(i, records) ==
  /\ pending[i].op = "Papa.parse"
  /\ data' = records
  /\ dataSource' = pending[i].arg
  /\ loading' = FALSE
  /\ pending' = RemoveAt(pending, i)
  /\ UNCHANGED <<fileName, selectedFilter, showModal, searchId, searchResult,
                 showSearchModal>>
  /\ Render

\* an error callback that drops the records
PapaErrorClearing(i) ==
  /\ pending[i].op = "Papa.parse"
  /\ data' = <<>>
  /\ loading' = FALSE
  /\ pending' = RemoveAt(pending, i)
  /\ UNCHANGED <<fileName, selectedFilter, showModal, searchId, searchResult,
                 showSearchModal>>
  /\ Render

\* error: () => { setLoading(false); alert('Error parsing CSV file') }
PapaError(i) ==
  /\ pending[i].op = "Papa.parse"
  /\ loading' = FALSE
  /\ pending' = RemoveAt(pending, i)
  /\ UNCHANGED <<data, fileName, selectedFilter, showModal, searchId,
                 searchResult, showSearchModal>>
  /\ Render

\* reader.onload: the try block sets the records <<jsonData>> of the first
\* sheet; XLSX.read throwing on a corrupt workbook (<<>>) lands in the catch
ReaderOnload(i, jsonData) ==
  /\ pending[i].op = "FileReader"
  /\ IF jsonData = <<>>
     THEN UNCHANGED <<data, dataSource>>
     ELSE data' = jsonData[1] /\ dataSource' = pending[i].arg
  /\ loading' = FALSE
  /\ pending' = RemoveAt(pending, i)
  /\ UNCHANGED <<fileName, selectedFilter, showModal, searchId, searchResult,
                 showSearchModal>>
  /\ Render

\* a read error that raises the alert and leaves the loading flag set
ReaderOnerrorStillLoading(i) ==
  /\ pending[i].op = "FileReader"
  /\ pending' = RemoveAt(pending, i)
  /\ UNCHANGED <<data, loading, fileName, selectedFilter, showModal, searchId,
                 searchResult, showSearchModal>>
  /\ Render

\* reader.onerror = () => { setLoading(false); alert('Error reading file') }
ReaderOnerror(i) ==
  /\ pending[i].op = "FileReader"
  /\ loading' = FALSE
  /\ pending' = RemoveAt(pending, i)
  /\ UNCHANGED <<data, fileName, selectedFilter, showModal, searchId,
                 searchResult, showSearchModal>>
  /\ Render

----------------------------------------------------------------------------
(* Remote variant (App.tsx).  pending holds the requests that were sent   *)
(* and not answered yet; a fetch is answered with a success response      *)
(* ("ok", with a body), a non-success response ("notok") or not at all,   *)
(* the promise being rejected ("reject").                                 *)

FailedToConnect ==
  <<"F", "a", "i", "l", "e", "d", " ", "t", "o", " ", "c", "o", "n", "n",
    "e", "c", "t", " ", "t", "o", " ", "s", "e", "r", "v", "e", "r", ".",
    " ", "M", "a", "k", "e", " ", "s", "u", "r", "e", " ", "b", "a", "c",
    "k", "e", "n", "d", " ", "i", "s", " ", "r", "u", "n", "n", "i", "n",
    "g", " ", "o", "n", " ", "p", "o", "r", "t", " ", "5", "0", "0", "0",
    ".">>

IssuesRequest == [op |-> "GET issues", arg |-> <<>>]
StatsRequest == [op |-> "GET stats", arg |-> <<>>]
IssueRequest(id) == [op |-> "GET issues/{id}", arg |-> id]
FilterRequest(type, value) == [op |-> "GET filter", arg |-> <<type, value>>]

Ok(body) == [kind |-> "ok", body |-> <<body>>]
NotOk == [kind |-> "notok", body |-> <<>>]
Rejected == [kind |-> "reject", body |-> <<>>]

\* the chart data and the KPI the render takes from stats
RenderRemote ==
  /\ statusData' = IF stats' = <<>> THEN <<>> ELSE stats'[1].byStatus
  /\ priorityData' = IF stats' = <<>> THEN <<>> ELSE stats'[1].byPriority
  /\ typeData' = IF stats' = <<>> THEN <<>> ELSE stats'[1].byType
  /\ stateData' = IF stats' = <<>> THEN <<>> ELSE stats'[1].byState
  /\ avgResolutionTime' =
       IF stats' = <<>> \/ stats'[1].avgResolutionDays = EmptyStr
       THEN <<"0">> ELSE stats'[1].avgResolutionDays

\* fetchData up to its first await: the Retry or the Refresh button (and
\* the effect that runs once on mount)
FetchData ==
  /\ loading' = TRUE
  /\ error' = EmptyStr
  /\ pending' = Append(pending, IssuesRequest)
  /\ dataBeforeLoad' = data
  /\ fresh' = [data |-> FALSE, stats |-> FALSE]
  /\ UNCHANGED <<data, fileName, selectedFilter, showModal, searchId,
                 searchResult, showSearchModal, filteredData, variant, stats,
                 dataSource>>
  /\ RenderRemote

\* a catch block that sends GET issues again by itself
FetchDataCatchRetrying(i) ==
  /\ error' = FailedToConnect
  /\ loading' = TRUE
  /\ pending' = Append(RemoveAt(pending, i), IssuesRequest)

\* the catch block of fetchData
FetchDataCatch(i) ==
  /\ error' = FailedToConnect
  /\ loading' = FALSE
  /\ pending' = RemoveAt(pending, i)

\* fetchData resumed by the answer to GET issues
IssuesResponse(i, response) ==
  /\ pending[i].op = "GET issues"
  /\ IF response.kind = "ok"
     THEN /\ data' = response.body[1]
          /\ fresh' = [fresh EXCEPT !.data = TRUE]
          /\ pending' = Append(RemoveAt(pending, i), StatsRequest)
          /\ UNCHANGED <<loading, error>>
     ELSE /\ FetchDataCatch(i)
          /\ UNCHANGED <<data, fresh>>
  /\ UNCHANGED <<fileName, selectedFilter, showModal, searchId, searchResult,
                 showSearchModal, filteredData, variant, stats, dataBeforeLoad,
                 dataSource>>
  /\ RenderRemote

\* an answer to GET stats whose failure ends the load without an error
StatsResponseIgnoringFailure(i, response) ==
  /\ pending[i].op = "GET stats"
  /\ IF response.kind = "ok"
     THEN /\ stats' = response.body
          /\ fresh' = [fresh EXCEPT !.stats = TRUE]
     ELSE UNCHANGED <<stats, fresh>>
  /\ loading' = FALSE
  /\ pending' = RemoveAt(pending, i)
  /\ UNCHANGED <<data, fileName, selectedFilter, showModal, searchId,
                 searchResult, showSearchModal, filteredData, variant, error,
                 dataBeforeLoad, dataSource>>
  /\ RenderRemote

\* fetchData resumed by the answer to GET stats
StatsResponse(i, response) ==
  /\ pending[i].op = "GET stats"
  /\ IF response.kind = "ok"
     THEN /\ stats' = response.body
          /\ fresh' = [fresh EXCEPT !.stats = TRUE]
          /\ loading' = FALSE
          /\ pending' = RemoveAt(pending, i)
          /\ UNCHANGED error
     ELSE /\ FetchDataCatch(i)
          /\ UNCHANGED <<stats, fresh>>
  /\ UNCHANGED <<data, fileName, selectedFilter, showModal, searchId,
                 searchResult, showSearchModal, filteredData, variant,
                 dataBeforeLoad, dataSource>>
  /\ RenderRemote

\* handleSearch up to its await; a blank query returns at once
HandleSearchRemote ==
  /\ LET Send(id) ==
           IF id = EmptyStr THEN pending' = pending
           ELSE pending' = Append(pending, IssueRequest(id))
     IN Send(trim(searchId))
  /\ UNCHANGED <<data, loading, fileName, selectedFilter, showModal, searchId,
                 searchResult, showSearchModal, filteredData, appVars>>
  /\ RenderRemote

\* handleSearch resumed by the answer to GET issues/{id}; a non-success
\* response and a rejection only raise an alert
IssueResponse(i, response) ==
  /\ pending[i].op = "GET issues/{id}"
  /\ IF response.kind = "ok"
     THEN /\ searchResult' = response.body
          /\ showSearchModal' = TRUE
     ELSE UNCHANGED <<searchResult, showSearchModal>>
  /\ pending' = RemoveAt(pending, i)
  /\ UNCHANGED <<data, loading, fileName, selectedFilter, showModal, searchId,
                 filteredData, appVars>>
  /\ RenderRemote

\* handleChartClick up to its await
HandleChartClickRemote(type, value) ==
  /\ selectedFilter' = <<[type |-> type, value |-> value]>>
  /\ pending' = Append(pending, FilterRequest(type, value))
  /\ UNCHANGED <<data, loading, fileName, showModal, searchId, searchResult,
                 showSearchModal, filteredData, appVars>>
  /\ RenderRemote

\* an answer to GET filter that also puts the search modal away
FilterResponseClosingSearch(i, response) ==
  /\ pending[i].op = "GET filter"
  /\ IF response.kind = "ok"
     THEN /\ filteredData' = response.body[1]
          /\ showModal' = TRUE
     ELSE UNCHANGED <<filteredData, showModal>>
  /\ showSearchModal' = FALSE
  /\ pending' = RemoveAt(pending, i)
  /\ UNCHANGED <<data, loading, fileName, selectedFilter, searchId,
                 searchResult, appVars>>
  /\ RenderRemote

\* handleChartClick resumed by the answer to GET filter; a failure is
\* written to the console only
FilterResponse(i, response) ==
  /\ pending[i].op = "GET filter"
  /\ IF response.kind = "ok"
     THEN /\ filteredData' = response.body[1]
          /\ showModal' = TRUE
     ELSE UNCHANGED <<filteredData, showModal>>
  /\ pending' = RemoveAt(pending, i)
  /\ UNCHANGED <<data, loading, fileName, selectedFilter, searchId,
                 searchResult, showSearchModal, appVars>>
  /\ RenderRemote

\* onChange={(e) => setSearchId(e.target.value)}
SetSearchIdRemote(text) ==
  /\ searchId' = text
  /\ UNCHANGED <<data, loading, fileName, selectedFilter, showModal,
                 searchResult, showSearchModal, pending, filteredData, appVars>>
  /\ RenderRemote

\* onClick={() => setShowModal(false)}
DismissModalRemote ==
  /\ showModal' = FALSE
  /\ UNCHANGED <<data, loading, fileName, selectedFilter, searchId,
                 searchResult, showSearchModal, pending, filteredData, appVars>>
  /\ RenderRemote

\* onClick={() => setShowSearchModal(false)}
DismissSearchModalRemote ==
  /\ showSearchModal' = FALSE
  /\ UNCHANGED <<data, loading, fileName, selectedFilter, showModal, searchId,
                 searchResult, pending, filteredData, appVars>>
  /\ RenderRemote

\* what the render returns: the loading screen, the error screen with its
\* Retry button, or the dashboard
Screen ==
  IF loading THEN "loading" ELSE IF error # EmptyStr THEN "error" ELSE "dashboard"

\* a modal is drawn over the dashboard
ModalShown ==
  \/ showModal /\ selectedFilter # <<>>
  \/ showSearchModal /\ searchResult # <<>>

----------------------------------------------------------------------------
(* Aggregation harness: a loaded dataset, drawn from the sample and the   *)
(* wide datasets, its charts clicked and the filter modal dismissed.      *)

\* the render of the current state
Rendered ==
  /\ statusData = StatusDataOf(data)
  /\ priorityData = PriorityDataOf(data)
  /\ typeData = TypeDataOf(data)
  /\ stateData = StateDataOf(data)
  /\ avgResolutionTime = AvgResolutionTimeOf(data)
  /\ filteredData = FilteredDataOf(data, selectedFilter)

InitAggregation ==
  /\ HelperIdle
  /\ \/ data \in SampleDatasets /\ tz \in Zones
     \/ data \in WideDatasets /\ tz = UTCZone
  /\ loading = FALSE
  /\ fileName = <<"a", ".", "c", "s", "v">>
  /\ selectedFilter = <<>>
  /\ showModal = FALSE
  /\ searchId = EmptyStr
  /\ searchResult = <<>>
  /\ showSearchModal = FALSE
  /\ pending = <<>>
  /\ LocalVariant
  /\ Rendered

\* the modal, while shown, lies over the charts (fixed inset-0), so a chart
\* is clicked only when no modal is shown
NextAggregation ==
  \/ ~showModal /\ ChartClick /\ UNCHANGED <<helperVars, tz, appVars>>
  \/ DismissModal /\ UNCHANGED <<helperVars, tz, appVars>>

----------------------------------------------------------------------------
(* View harness: a loaded dataset of sample records; the user types,      *)
(* searches, clicks charts and dismisses the modals.  A modal, while      *)
(* shown, lies over the charts, so a chart is clicked only when no modal  *)
(* is shown; the search box keeps the keyboard.                           *)

ViewDatasets == {<<RowA, RowB>>, <<RowC, RowD, RowA>>}

InitView ==
  /\ HelperIdle
  /\ tz \in Zones
  /\ data \in ViewDatasets
  /\ loading = FALSE
  /\ fileName = <<"a", ".", "c", "s", "v">>
  /\ selectedFilter = <<>>
  /\ showModal = FALSE
  /\ searchId = EmptyStr
  /\ searchResult = <<>>
  /\ showSearchModal = FALSE
  /\ pending = <<>>
  /\ LocalVariant
  /\ Rendered

NextView ==
  \/ ~showModal /\ ~showSearchModal /\ ChartClick /\ UNCHANGED <<helperVars, tz, appVars>>
  \/ DismissModal /\ UNCHANGED <<helperVars, tz, appVars>>
  \/ Typing /\ UNCHANGED <<helperVars, tz, appVars>>
  \/ HandleSearch /\ UNCHANGED <<helperVars, tz, appVars>>
  \/ DismissSearchModal /\ UNCHANGED <<helperVars, tz, appVars>>

SpecView == InitView /\ [][NextView]_vars

----------------------------------------------------------------------------
(* Dashboard harness: either variant from its construction on.  The user  *)
(* uploads files (local) or retries and refreshes (remote), types,        *)
(* searches, clicks the status chart and dismisses the modals, while the  *)
(* parses and requests in flight call back in any order.  What lies under *)
(* a modal or is not on the screen cannot be clicked.                     *)

UploadNames ==
  {<<"a", ".", "c", "s", "v">>,
   <<"b", ".", "X", "L", "S", "X">>,
   <<"c", ".", "t", "x", "t">>}

UploadDatasets == {<<RowA, RowB>>, <<RowD>>}

ServerDatasets == {<<RowA>>, <<RowA, RowD>>}

Bucket(name, value) == [name |-> name, value |-> value]

StatsOne ==
  [total |-> 1,
   byStatus |-> <<Bucket(<<"O", "p", "e", "n">>, 1)>>,
   byPriority |-> <<Bucket(<<"U", "r", "g", "e", "n", "t">>, 1)>>,
   byType |-> <<Bucket(<<"B", "u", "g">>, 1)>>,
   byState |-> <<Bucket(<<"S", "1">>, 1)>>,
   avgResolutionDays |-> <<"2", ".", "0">>]

StatsTwo ==
  [total |-> 2,
   byStatus |-> <<Bucket(<<"O", "p", "e", "n">>, 1), Bucket(<<"2">>, 1)>>,
   byPriority |-> <<Bucket(<<"U", "r", "g", "e", "n", "t">>, 2)>>,
   byType |-> <<Bucket(<<"B", "u", "g">>, 1)>>,
   byState |-> <<Bucket(<<"S", "1">>, 1), Bucket(<<"S", "3">>, 1)>>,
   avgResolutionDays |-> EmptyStr]

ServerStats == {StatsOne, StatsTwo}

\* row.id of a record of the server
IdOf(r) == Get(r, <<"i", "d">>)

ServerRows == {RowA, RowD}

\* the answers to GET issues, GET stats, GET issues/{id} and GET filter
IssuesResponses == {Ok(d) : d \in ServerDatasets} \cup {NotOk, Rejected}
StatsResponses == {Ok(st) : st \in ServerStats} \cup {NotOk, Rejected}
IssueResponses(id) ==
  {Ok(r) : r \in {x \in ServerRows : IdOf(x) = id}} \cup {NotOk, Rejected}
FilterResponses == {Ok(<<>>), Ok(<<RowA>>), NotOk, Rejected}

DashboardTexts == {<<"2">>, <<"7">>}

\* the remote variant after its first render and the effect that calls
\* fetchData on mount
RemoteInitial ==
  /\ data = <<>>
  /\ stats = <<>>
  /\ loading = TRUE
  /\ error = EmptyStr
  /\ dataBeforeLoad = <<>>
  /\ dataSource = EmptyStr
  /\ fresh = [data |-> FALSE, stats |-> FALSE]
  /\ fileName = EmptyStr
  /\ selectedFilter = <<>>
  /\ filteredData = <<>>
  /\ showModal = FALSE
  /\ searchId = EmptyStr
  /\ searchResult = <<>>
  /\ showSearchModal = FALSE
  /\ pending = <<IssuesRequest>>
  /\ statusData = <<>>
  /\ priorityData = <<>>
  /\ typeData = <<>>
  /\ stateData = <<>>
  /\ avgResolutionTime = <<"0">>

InitDashboard ==
  /\ HelperIdle
  /\ tz = UTCZone
  /\ \/ DashboardInitial /\ LocalVariant
     \/ RemoteInitial /\ variant = "remote"

\* the local variant: the user
Upload ==
  /\ variant = "local" /\ ~ModalShown /\ Len(pending) < MaxPending
  /\ \E name \in UploadNames : HandleFileUpload(name)
  /\ UNCHANGED <<helperVars, tz, appVars>>

ClickStatus ==
  /\ variant = "local" /\ ~ModalShown
  /\ \E name \in BucketNames(statusData) : HandleChartClick("status", name)
  /\ UNCHANGED <<helperVars, tz, appVars>>

CloseModal ==
  /\ variant = "local"
  /\ DismissModal
  /\ UNCHANGED <<helperVars, tz, appVars>>

TypeId ==
  /\ variant = "local"
  /\ \E text \in DashboardTexts : SetSearchId(text)
  /\ UNCHANGED <<helperVars, tz, appVars>>

Search ==
  /\ variant = "local"
  /\ HandleSearch
  /\ UNCHANGED <<helperVars, tz, appVars>>

CloseSearchModal ==
  /\ variant = "local"
  /\ DismissSearchModal
  /\ UNCHANGED <<helperVars, tz, appVars>>

\* the local variant: the callbacks of Papa.parse and of the FileReader
CsvParsed ==
  /\ variant = "local"
  /\ \E i \in 1..Len(pending) : \E records \in UploadDatasets : PapaComplete(i, records)
  /\ UNCHANGED <<helperVars, tz, variant, stats, error, dataBeforeLoad, fresh>>

CsvFailed ==
  /\ variant = "local"
  /\ \E i \in 1..Len(pending) : PapaError(i)
  /\ UNCHANGED <<helperVars, tz, appVars>>

FileRead ==
  /\ variant = "local"
  /\ \E i \in 1..Len(pending) :
       \E jsonData \in {<<>>} \cup {<<d>> : d \in UploadDatasets} :
         ReaderOnload(i, jsonData)
  /\ UNCHANGED <<helperVars, tz, variant, stats, error, dataBeforeLoad, fresh>>

FileReadFailed ==
  /\ variant = "local"
  /\ \E i \in 1..Len(pending) : ReaderOnerror(i)
  /\ UNCHANGED <<helperVars, tz, appVars>>

\* the remote variant: the user
RetryOrRefresh ==
  /\ variant = "remote" /\ Len(pending) < MaxPending
  /\ Screen = "error" \/ (Screen = "dashboard" /\ ~ModalShown)
  /\ FetchData
  /\ UNCHANGED <<helperVars, tz>>

ClickStatusRemote ==
  /\ variant = "remote" /\ Len(pending) < MaxPending
  /\ Screen = "dashboard" /\ ~ModalShown
  /\ \E name \in BucketNames(statusData) : HandleChartClickRemote("status", name)
  /\ UNCHANGED <<helperVars, tz>>

CloseModalRemote ==
  /\ variant = "remote" /\ Screen = "dashboard"
  /\ showModal /\ selectedFilter # <<>>
  /\ DismissModalRemote
  /\ UNCHANGED <<helperVars, tz>>

TypeIdRemote ==
  /\ variant = "remote" /\ Screen = "dashboard"
  /\ \E text \in DashboardTexts : SetSearchIdRemote(text)
  /\ UNCHANGED <<helperVars, tz>>

SearchRemote ==
  /\ variant = "remote" /\ Len(pending) < MaxPending
  /\ Screen = "dashboard"
  /\ HandleSearchRemote
  /\ UNCHANGED <<helperVars, tz>>

CloseSearchModalRemote ==
  /\ variant = "remote" /\ Screen = "dashboard"
  /\ showSearchModal /\ searchResult # <<>>
  /\ DismissSearchModalRemote
  /\ UNCHANGED <<helperVars, tz>>

\* the remote variant: the server answers, or the network fails
IssuesAnswered ==
  /\ variant = "remote"
  /\ \E i \in 1..Len(pending) : \E response \in IssuesResponses :
       IssuesResponse(i, response)
  /\ UNCHANGED <<helperVars, tz>>

StatsAnswered ==
  /\ variant = "remote"
  /\ \E i \in 1..Len(pending) : \E response \in StatsResponses :
       StatsResponse(i, response)
  /\ UNCHANGED <<helperVars, tz>>

IssueAnswered ==
  /\ variant = "remote"
  /\ \E i \in 1..Len(pending) : \E response \in IssueResponses(pending[i].arg) :
       IssueResponse(i, response)
  /\ UNCHANGED <<helperVars, tz>>

FilterAnswered ==
  /\ variant = "remote"
  /\ \E i \in 1..Len(pending) : \E response \in FilterResponses :
       FilterResponse(i, response)
  /\ UNCHANGED <<helperVars, tz>>

UserActs ==
  \/ Upload
  \/ ClickStatus
  \/ CloseModal
  \/ TypeId
  \/ Search
  \/ CloseSearchModal
  \/ RetryOrRefresh
  \/ ClickStatusRemote
  \/ CloseModalRemote
  \/ TypeIdRemote
  \/ SearchRemote
  \/ CloseSearchModalRemote

CallbackRuns ==
  \/ CsvParsed
  \/ CsvFailed
  \/ FileRead
  \/ FileReadFailed
  \/ IssuesAnswered
  \/ StatsAnswered
  \/ IssueAnswered
  \/ FilterAnswered

NextDashboard == UserActs \/ CallbackRuns

SpecDashboard == InitDashboard /\ [][NextDashboard]_vars

\* a pending operation of the local variant calls back: each of its
\* callbacks takes its operation out of pending, and no other step does
UploadCompletes ==
  /\ variant = "local"
  /\ \E i \in 1..Len(pending) : pending' = RemoveAt(pending, i)

\* a request of the remote variant is answered or fails
RequestCompletes ==
  IssuesAnswered \/ StatsAnswered \/ IssueAnswered \/ FilterAnswered

\* I/O completes: a file that is read or parsed calls back, a request that
\* was sent is answered or fails; the user is under no obligation
SpecDashboardFair ==
  SpecDashboard /\ WF_pending(UploadCompletes) /\ WF_vars(RequestCompletes)

SpecAggregation == InitAggregation /\ [][NextAggregation]_vars

----------------------------------------------------------------------------
(* Aggregation and filter: claims C4 - C6 *)

RECURSIVE SumOfValues(_)
SumOfValues(chart) ==
  IF chart = <<>> THEN 0 ELSE Head(chart).value + SumOfValues(Tail(chart))

\* every state bucket, before the sort and the truncation
AllStateBuckets == ChartDataOf(stateCounts(data))

\* the positions of the buckets of all that kept leaves out
Omitted(all, kept) ==
  {i \in 1..Len(all) : \A j \in 1..Len(kept) : kept[j].name # all[i].name}

RECURSIVE SumOver(_, _)
SumOver(chart, I) ==
  IF I = {} THEN 0
  ELSE LET i == Min(I) IN chart[i].value + SumOver(chart, I \ {i})

\* C4 as claimed: for each of the four dimensions the counts of the buckets
\* produced (statusData, priorityData, typeData, stateData) sum to the
\* number of records.
C4_AllFourSumToTotal ==
  /\ SumOfValues(statusData) = Len(data)
  /\ SumOfValues(priorityData) = Len(data)
  /\ SumOfValues(typeData) = Len(data)
  /\ SumOfValues(stateData) = Len(data)

\* C4 (amended): the counts of statusData, priorityData and typeData, and of
\* the state buckets before truncation, each sum to the number of records;
\* stateData sums to the number of records less the counts of the buckets
\* beyond the tenth, hence to the number of records whenever there are at
\* most 10 distinct states.
C4_SumsToTotal ==
  LET all == AllStateBuckets
  IN /\ SumOfValues(statusData) = Len(data)
     /\ SumOfValues(priorityData) = Len(data)
     /\ SumOfValues(typeData) = Len(data)
     /\ SumOfValues(all) = Len(data)
     /\ SumOfValues(stateData) = Len(data) - SumOver(all, Omitted(all, stateData))
     /\ Len(all) <= TopN => SumOfValues(stateData) = Len(data)

\* a dataset with more than ten distinct states, some of them repeated
C4_Witness ==
  LET all == AllStateBuckets
  IN /\ Len(all) > TopN
     /\ Len(data) > Len(all)
     /\ SumOfValues(stateData) < Len(data)

\* C5: stateData is the first min(10, k) of the k state buckets sorted by
\* count, non-increasing: at most 10 buckets, consecutive counts do not
\* increase, and no omitted bucket has a greater count than a kept one.
C5_TopTenStates ==
  LET all == AllStateBuckets
      omitted == Omitted(all, stateData)
  IN /\ Len(stateData) <= TopN
     /\ Len(stateData) = IF Len(all) <= TopN THEN Len(all) ELSE TopN
     /\ \A i \in 1..Len(stateData) : \E j \in 1..Len(all) : stateData[i] = all[j]
     /\ \A i, j \in 1..Len(stateData) : i # j => stateData[i].name # stateData[j].name
     /\ \A i \in 1..(Len(stateData) - 1) : stateData[i].value >= stateData[i + 1].value
     /\ \A i \in omitted : \A j \in 1..Len(stateData) : all[i].value <= stateData[j].value

\* more than ten states, and the most frequent one was created after the tenth
C5_Witness ==
  LET all == AllStateBuckets
  IN /\ Len(all) > TopN
     /\ \E i \in (TopN + 1)..Len(all) :
          /\ all[i].value > all[1].value
          /\ stateData[1] = all[i]

\* the resolved value of record r for a kind
ResolvedFor(kind, r) ==
  CASE kind = "status" -> getColumnValue(r, StatusNames)
    [] kind = "priority" -> getColumnValue(r, PriorityNames)
    [] kind = "type" -> getColumnValue(r, TypeNames)
    [] kind = "state" -> getColumnValue(r, StateNames)

\* positions of the records of the dataset that resolve to v for a kind
PositionsOf(kind, v) == {i \in 1..Len(data) : ResolvedFor(kind, data[i]) = v}

RECURSIVE Ascending(_)
Ascending(I) == IF I = {} THEN <<>> ELSE <<Min(I)>> \o Ascending(I \ {Min(I)})

\* C6: for a selection (kind, v), filteredData holds exactly the records
\* whose resolved value for the kind equals v, in dataset order; so for each
\* bucket (name, count) shown for the kind the filter on name has count
\* records, and a value no record has gives the empty list.
C6_FilterMatchesBucket ==
  selectedFilter # <<>> =>
    LET kind == selectedFilter[1].type
        v == selectedFilter[1].value
        pos == Ascending(PositionsOf(kind, v))
    IN /\ Len(filteredData) = Len(pos)
       /\ \A j \in 1..Len(pos) : filteredData[j] = data[pos[j]]
       /\ \A i \in 1..Len(ChartOf(kind)) :
            ChartOf(kind)[i].name = v => Len(filteredData) = ChartOf(kind)[i].value
       /\ PositionsOf(kind, v) = {} => filteredData = <<>>

\* a selection by type that keeps some records and drops others
C6_Witness ==
  /\ selectedFilter # <<>>
  /\ showModal
  /\ selectedFilter[1].type = "type"
  /\ Len(filteredData) >= 1
  /\ Len(filteredData) < Len(data)

----------------------------------------------------------------------------
(* Re-rendering: claim C7 *)

\* C7: a re-render (after a search, a filter selection, a dismiss or typing)
\* over an unchanged record set yields the same bucket sequences for the
\* four dimensions, in the same order with the same counts, and the same
\* average-resolution string.
C7_RerenderIdempotent ==
  [][data' = data =>
       /\ statusData' = statusData
       /\ priorityData' = priorityData
       /\ typeData' = typeData
       /\ stateData' = stateData
       /\ avgResolutionTime' = avgResolutionTime]_vars

\* the user has typed, searched with success and selected a filter that
\* keeps only part of the records; the charts show several buckets
C7_Witness ==
  /\ searchId # EmptyStr
  /\ searchResult # <<>>
  /\ selectedFilter # <<>>
  /\ filteredData # <<>>
  /\ Len(filteredData) < Len(data)
  /\ Len(statusData) >= 2
  /\ avgResolutionTime # <<"0">>

----------------------------------------------------------------------------
(* Average resolution time: claim C13 *)

\* the positions of the records with a duration
Resolved(d) == {i \in 1..Len(d) : getResolutionDays(d[i]) # Dash}

RECURSIVE TotalDays(_, _)
\* the durations of the records at the positions I, added up
TotalDays(d, I) ==
  IF I = {} THEN 0
  ELSE LET i == Min(I) IN parseInt(getResolutionDays(d[i])) + TotalDays(d, I \ {i})

\* t tenths is a nearest tenth of total / n
NearestTenth(t, total, n) == 2 * Abs(10 * total - t * n) <= n

\* C13: avgResolutionTime is "0" when no record has a duration (the empty
\* dataset, every closedOn absent); otherwise it is the mean of the
\* durations of exactly the records whose getResolutionDays is not "-",
\* rounded to one decimal place.
C13_AverageOfResolved ==
  LET I == Resolved(data)
      total == TotalDays(data, I)
      n == Cardinality(I)
  IN IF n = 0 THEN avgResolutionTime = <<"0">>
     ELSE \E t \in (10 * total) \div n .. (10 * total) \div n + 1 :
            /\ NearestTenth(t, total, n)
            /\ avgResolutionTime = Dec(t \div 10) \o <<".">> \o Dec(t % 10)

\* a dataset with a record that has a duration and one that has none: the
\* mean is taken over the first only
C13_Witness ==
  /\ Resolved(data) # {}
  /\ Cardinality(Resolved(data)) < Len(data)
  /\ avgResolutionTime # <<"0">>

\* the datasets without any duration show "0": the empty one, and one whose
\* records all lack a closed date
C13_WitnessNone ==
  /\ data # <<>>
  /\ Resolved(data) = {}
  /\ avgResolutionTime = <<"0">>

----------------------------------------------------------------------------
(* The two variants side by side: claim C14 *)

\* C14: for every pair of created and closed strings (the explicit formats
\* M/D/YYYY H:MM and D/M/YY, the sentinels and missing dates included) the
\* remote getResolutionDays answers the same string as the local one.
C14_VariantsAgree ==
  (resolutionDays # <<>> /\ resolutionDaysRemote # <<>>)
    => resolutionDaysRemote = resolutionDays

\* the date-only forms both variants read alike
SharedFormats == {"M/D/YYYY", "YYYY-MM-DD"}

SharedDateStrings ==
  Sentinels \cup {NotADate}
    \cup {FormatDate(f, cd, <<0, 0>>) : f \in SharedFormats, cd \in CalDates}

\* the variants agree when each date is missing, a sentinel, not a date, or
\* written as M/D/YYYY or YYYY-MM-DD
C14_AgreeOnSharedFormats ==
  (/\ resolutionDays # <<>> /\ resolutionDaysRemote # <<>>
   /\ \A i \in 1..Len(row) : row[i][2] \in SharedDateStrings)
    => resolutionDaysRemote = resolutionDays

\* both variants have answered a number of days for the same record
C14_BothAnswered ==
  /\ resolutionDays # <<>> /\ resolutionDaysRemote # <<>>
  /\ resolutionDays[1] # Dash
  /\ resolutionDaysRemote = resolutionDays

----------------------------------------------------------------------------
(* The filter flow and the search flow: claim C15 *)

\* the positions of the requests of an operation in flight
InFlight(op) == {i \in 1..Len(pending) : pending[i].op = op}

\* the detail modal of each flow is drawn
FilterShown == showModal /\ selectedFilter # <<>>
SearchShown == showSearchModal /\ searchResult # <<>>

\* a flow is idle: its modal hidden and no selection of it on its way
FilterIdle == ~FilterShown /\ InFlight("GET filter") = {}
SearchIdle == ~SearchShown /\ InFlight("GET issues/{id}") = {}

\* the steps in which the user selects, and those in which a selection
\* made while the flow was idle (the only one on its way) is answered
FilterSelected == ClickStatus \/ ClickStatusRemote
FilterDetailArrives == FilterAnswered /\ Cardinality(InFlight("GET filter")) = 1
SearchSelected == Search \/ SearchRemote
SearchDetailArrives == IssueAnswered /\ Cardinality(InFlight("GET issues/{id}")) = 1

\* the steps of a flow that open and close its modal
FilterOpens == ~FilterShown /\ FilterShown'
FilterCloses == FilterShown /\ ~FilterShown'
SearchOpens == ~SearchShown /\ SearchShown'
SearchCloses == SearchShown /\ ~SearchShown'

\* C15: in both variants each flow follows idle -> selected -> detail-shown
\* -> idle: a modal opens only by the user's selection made while the flow
\* was idle, it closes only when the user dismisses it, the dismissal leaves
\* the flow idle (so the modal cannot open again without a new selection),
\* and there is one selection and one search result at most.
C15_FlowsFollowStateMachine ==
  [][/\ FilterOpens => (FilterSelected \/ FilterDetailArrives)
     /\ FilterCloses => ((CloseModal \/ CloseModalRemote) /\ FilterIdle')
     /\ SearchOpens => (SearchSelected \/ SearchDetailArrives)
     /\ SearchCloses => ((CloseSearchModal \/ CloseSearchModalRemote) /\ SearchIdle')
     /\ Len(selectedFilter') <= 1 /\ Len(searchResult') <= 1]_vars

\* the local variant follows the state machine
C15_LocalFlows ==
  [][variant = "local" =>
       /\ FilterOpens => ClickStatus
       /\ FilterCloses => (CloseModal /\ FilterIdle')
       /\ SearchOpens => Search
       /\ SearchCloses => (CloseSearchModal /\ SearchIdle')]_vars

\* in both variants a modal, once shown, is closed by its dismissal only,
\* and a modal opens only by a selection or by the answer to one
C15_ShownUntilDismissed ==
  [][/\ FilterOpens => (ClickStatus \/ FilterAnswered)
     /\ FilterCloses => (CloseModal \/ CloseModalRemote)
     /\ SearchOpens => (Search \/ IssueAnswered)
     /\ SearchCloses => (CloseSearchModal \/ CloseSearchModalRemote)]_vars

\* the remote variant: a modal was dismissed while another selection of
\* its flow is still on its way
C15_DismissedNotIdle ==
  /\ variant = "remote"
  /\ ~FilterShown /\ selectedFilter # <<>> /\ filteredData # <<>>
  /\ InFlight("GET filter") # {}

----------------------------------------------------------------------------
(* Transport failures of the remote variant: claim C16 *)

FailureResponses == {NotOk, Rejected}

\* the steps in which a request of the load, and one of a search or a
\* filter, is answered by a non-success response or by a network error
LoadRequestFails ==
  \E i \in 1..Len(pending) : \E response \in FailureResponses :
    IssuesResponse(i, response) \/ StatsResponse(i, response)
DetailRequestFails ==
  \E i \in 1..Len(pending) : \E response \in FailureResponses :
    IssueResponse(i, response) \/ FilterResponse(i, response)

\* the blocking error state
ErrorState == error # EmptyStr /\ ~loading

\* the step that completes a load: GET stats answered with success
LoadSucceeds ==
  \E i \in 1..Len(pending) : \E st \in ServerStats : StatsResponse(i, Ok(st))

\* C16: in the remote variant every transport failure of any request (GET
\* issues, GET stats, GET issues/{id}, GET filter) puts the dashboard in the
\* blocking error state, error non-empty and loading false, in which only
\* the retry is offered; a retry whose requests succeed clears the error and
\* shows the dashboard.
C16_EveryFailureBlocks ==
  [][variant = "remote" =>
       /\ (LoadRequestFails \/ DetailRequestFails) => ErrorState'
       /\ (ErrorState /\ UserActs) => RetryOrRefresh
       /\ LoadSucceeds => Screen' = "dashboard"]_vars

\* the same of the requests of the load alone: GET issues and GET stats
C16_LoadFailureBlocks ==
  [][variant = "remote" =>
       /\ LoadRequestFails => ErrorState'
       /\ (ErrorState /\ UserActs) => RetryOrRefresh
       /\ (ErrorState /\ RetryOrRefresh) => error' = EmptyStr
       /\ LoadSucceeds => Screen' = "dashboard"]_vars

----------------------------------------------------------------------------
(* Failed uploads: claim C17 *)

\* the names handleFileUpload rejects for their extension
UnsupportedNames ==
  {name \in UploadNames :
     FileExtension(name) \notin {CsvExtension} \cup ExcelExtensions}

\* the steps in which an upload fails: the CSV parse error, the workbook
\* that throws, the file read error, and the rejection of the extension
UploadFails ==
  \/ \E i \in 1..Len(pending) :
       PapaError(i) \/ ReaderOnload(i, <<>>) \/ ReaderOnerror(i)
  \/ \E name \in UnsupportedNames : HandleFileUpload(name)

\* C17: an upload of the local variant that ends in a parse failure (CSV
\* parse error, workbook read exception, file read error) or is rejected for
\* its extension leaves data exactly as it was, whatever was uploaded before.
C17_FailedUploadKeepsData ==
  [][(variant = "local" /\ UploadFails) => data' = data]_vars

\* records are loaded, and the upload made last was rejected for its
\* extension: the records are still there
C17_Witness ==
  /\ variant = "local"
  /\ data # <<>>
  /\ fileName \in UnsupportedNames
  /\ pending = <<>> /\ ~loading

\* records are loaded, another upload is in flight and an upload has failed
\* since (loading is off again)
C17_WitnessParse ==
  /\ variant = "local"
  /\ data # <<>>
  /\ pending # <<>> /\ ~loading
  /\ fileName \notin UnsupportedNames

----------------------------------------------------------------------------
(* A search without a match: claim C18 *)

\* what a search without a match must leave alone
SearchFrame ==
  <<data, stats, statusData, priorityData, typeData, stateData,
    avgResolutionTime, selectedFilter, showModal, filteredData, searchResult,
    showSearchModal>>

\* the query is blank; no record of data has the trimmed query as its id
BlankQuery == trim(searchId) = EmptyStr
NoLocalMatch == ~BlankQuery /\ FindById(data, trim(searchId)) = <<>>

\* the whole state of the dashboard
Dashboard == <<stateVars, renderVars, appVars>>

\* C18: in both variants a search that finds no match (local: no record
\* whose resolved id equals the trimmed query; remote: a non-success
\* response) changes no state: data, the aggregates, selectedFilter, the
\* filter modal, searchResult and showSearchModal stay as they are; a blank
\* query does nothing at all.
C18_NoMatchChangesNothing ==
  [][/\ (variant = "local" /\ NoLocalMatch /\ Search)
          => UNCHANGED SearchFrame
     /\ (variant = "remote" /\ \E i \in 1..Len(pending) : IssueResponse(i, NotOk))
          => UNCHANGED SearchFrame
     /\ (BlankQuery /\ (Search \/ SearchRemote))
          => UNCHANGED Dashboard]_vars

\* local: a result was found before, and the query now in the box matches
\* no record
C18_Witness ==
  /\ variant = "local"
  /\ data # <<>> /\ NoLocalMatch
  /\ searchResult # <<>>

\* remote: a result was found before, its modal was dismissed, and a search
\* is on its way that the server may answer with not found
C18_WitnessRemote ==
  /\ variant = "remote"
  /\ searchResult # <<>> /\ ~showSearchModal
  /\ InFlight("GET issues/{id}") # {}

----------------------------------------------------------------------------
(* The record set: claim C19 *)

\* the steps in which the records of a load arrive
RecordsArrive == CsvParsed \/ FileRead \/ IssuesAnswered

\* the record sets a file or the server can deliver
LoadedRecords == UploadDatasets \cup ServerDatasets

\* C19: in both variants data changes only when a load completes
\* successfully, and then as a whole to the loaded records; search, chart
\* click, dismissal, typing, failed loads and the computation of the
\* aggregates never modify it.  A load of the remote variant is one call of
\* fetchData, which has failed when one of its two requests has.
C19_OnlySuccessfulLoadsChangeData ==
  [][/\ data' # data => (RecordsArrive /\ data' \in LoadedRecords)
     /\ (variant = "local" /\ UploadFails) => data' = data
     /\ (variant = "remote" /\ LoadRequestFails) => data' = dataBeforeLoad]_vars

\* data changes only in a step in which the records of a load arrive, and
\* then as a whole; a failing step itself never changes it
C19_OnlyArrivingRecordsChangeData ==
  [][/\ data' # data => (RecordsArrive /\ data' \in LoadedRecords)
     /\ (UploadFails \/ LoadRequestFails) => data' = data]_vars

\* the remote variant shows the error of a failed load whose records have
\* replaced those loaded before
C19_FailedLoadReplacedData ==
  /\ variant = "remote"
  /\ Screen = "error"
  /\ dataBeforeLoad # <<>>
  /\ data # dataBeforeLoad

----------------------------------------------------------------------------
(* No automatic retry: claim C20 *)

\* a step in which a request is sent or a file parse is started
WorkStarts == Len(pending') >= Len(pending) /\ pending' # pending

\* a step in which a load, a search or a filter request or an upload fails
SomethingFails ==
  UploadFails \/ LoadRequestFails \/ DetailRequestFails

\* the second request of a load, sent when the first was answered with success
LoadGoesOn ==
  \E i \in 1..Len(pending) : \E d \in ServerDatasets : IssuesResponse(i, Ok(d))

\* C20: in both variants nothing is retried automatically: the step in
\* which a load, a search, a filter request or a file parse fails sends no
\* request and starts no parse, and none is started afterwards but by an
\* action of the user (retry or refresh, upload, search, chart click).
C20_NoAutomaticRetry ==
  [][/\ (SomethingFails /\ ~UserActs) => Len(pending') < Len(pending)
     /\ WorkStarts => (UserActs \/ LoadGoesOn)]_vars

\* remote: a load has failed, the error screen is shown and nothing is in
\* flight
C20_Witness == variant = "remote" /\ ErrorState /\ pending = <<>>

\* local: an upload has failed before any records were loaded, and nothing
\* is in flight
C20_WitnessLocal ==
  /\ variant = "local"
  /\ fileName # EmptyStr /\ data = <<>> /\ ~loading
  /\ pending = <<>>

----------------------------------------------------------------------------
(* Overlapping loads: claims C21, C22 *)

LoadOps == {"Papa.parse", "FileReader", "GET issues", "GET stats"}

\* the positions of the loads in flight
LoadsInFlight == {i \in 1..Len(pending) : pending[i].op \in LoadOps}

\* the step in which the load at position i delivers its records
Delivers(i) ==
  \/ \E records \in UploadDatasets :
       PapaComplete(i, records) \/ ReaderOnload(i, <<records>>)
  \/ \E records \in ServerDatasets : IssuesResponse(i, Ok(records))

\* the load at position i is the one started last: the upload whose name
\* handleFileUpload stored last (the files of the harness differ in their
\* names; a file rejected since then has started no load), the only call of
\* fetchData under way
StartedLast(i) ==
  IF variant = "local"
  THEN fileName \in UnsupportedNames \/ pending[i].arg = fileName
  ELSE LoadsInFlight = {i}

\* C21: a superseded load's result is discarded: in both variants, however
\* the starts of loads and their completions interleave, once no load is
\* pending the records shown are those of the load started last, never
\* those of an earlier load that completed later.
C21_SupersededLoadDiscarded ==
  [][\A i \in 1..Len(pending) :
       /\ (Delivers(i) /\ LoadsInFlight' = {}) => StartedLast(i)
       /\ (Delivers(i) /\ variant = "remote") => StartedLast(i)]_vars

\* the remote variant never has a superseded load: the records that arrive
\* are those of the only fetchData under way, and with no load pending on
\* the dashboard they come from the load started last
C21_RemoteLoadsDoNotOverlap ==
  [][variant = "remote" =>
       /\ \A i \in 1..Len(pending) : Delivers(i) => StartedLast(i)
       /\ (Screen' = "dashboard" /\ LoadsInFlight' = {}) => fresh'.data]_vars

\* local: no upload is pending and the records shown were read from a file
\* other than the one uploaded last, which is a file that can be read
C21_StaleRecordsShown ==
  /\ variant = "local"
  /\ LoadsInFlight = {}
  /\ data # <<>>
  /\ dataSource # fileName
  /\ fileName \notin UnsupportedNames


\* C22: at most one load is in flight at any time: in both variants no
\* sequence of user actions (a second file selected while the first is
\* still read or parsed, refresh or retry while a fetch is pending) reaches
\* a state with two pending loads.
C22_AtMostOneLoadInFlight == Cardinality(LoadsInFlight) <= 1

\* the remote variant keeps to it: the screens shown while a load is under
\* way offer neither Retry nor Refresh
C22_RemoteOneLoadInFlight ==
  variant = "remote" => Cardinality(LoadsInFlight) <= 1

\* local: two uploads are read at the same time
C22_TwoUploadsInFlight ==
  variant = "local" /\ Cardinality(LoadsInFlight) = 2


(***************************************************************************)
(* Loading flag: claims C23, C30                                           *)
(***************************************************************************)

\* C23: the UI is in the loading state whenever an operation is suspended:
\* in every reachable state of both variants in which a file read or parse
\* or a network fetch (issues, stats, issue by id, filter) is pending, the
\* loading flag is true.
C23_LoadingWhileSuspended == pending # <<>> => loading

\* what the code does keep: while fetchData is under way the remote variant
\* is loading
C23_LoadingWhileFetchingData ==
  (variant = "remote" /\ LoadsInFlight # {}) => loading

\* remote: a search or filter request is pending on the dashboard
C23_DetailPendingNotLoading ==
  /\ variant = "remote" /\ ~loading
  /\ InFlight("GET issues/{id}") \cup InFlight("GET filter") # {}

\* local: an upload is still read or parsed and the loading flag is off
C23_UploadPendingNotLoading ==
  variant = "local" /\ LoadsInFlight # {} /\ ~loading


(***************************************************************************)
(* Bucket order: claim C24                                                 *)
(***************************************************************************)

RECURSIVE FirstOccurrences(_, _)
\* the distinct values of vals behind seen, each where it occurs first
FirstOccurrences(seen, vals) ==
  IF vals = <<>> THEN seen
  ELSE FirstOccurrences(
         IF \E i \in 1..Len(seen) : seen[i] = Head(vals)
         THEN seen ELSE Append(seen, Head(vals)),
         Tail(vals))

\* the names of the buckets of a chart, in the order of the chart
BucketOrder(chart) == [i \in 1..Len(chart) |-> chart[i].name]

\* the resolved values of one dimension, record by record
StatusValues == SeqMap(getStatus, data)
PriorityValues == SeqMap(getPriority, data)
TypeValues == SeqMap(getType, data)

\* C24: local variant: for the status, priority and type dimensions the
\* bucket sequence lists the distinct resolved values in the order in which
\* each value first occurs in the dataset, for every dataset, those with
\* numeric-looking values such as "2" and "10" included.
C24_BucketsInFirstOccurrenceOrder ==
  /\ BucketOrder(statusData) = FirstOccurrences(<<>>, StatusValues)
  /\ BucketOrder(priorityData) = FirstOccurrences(<<>>, PriorityValues)
  /\ BucketOrder(typeData) = FirstOccurrences(<<>>, TypeValues)

\* no value of the sequence is a canonical array index
NoArrayIndex(vals) == \A i \in 1..Len(vals) : ~IsArrayIndex(vals[i])

\* the order of first occurrence is kept by every dimension whose values
\* are no array indices; the buckets of a dimension are always its distinct
\* values
C24_FirstOccurrenceOrderOfNames ==
  /\ NoArrayIndex(StatusValues) =>
       BucketOrder(statusData) = FirstOccurrences(<<>>, StatusValues)
  /\ NoArrayIndex(PriorityValues) =>
       BucketOrder(priorityData) = FirstOccurrences(<<>>, PriorityValues)
  /\ NoArrayIndex(TypeValues) =>
       BucketOrder(typeData) = FirstOccurrences(<<>>, TypeValues)
  /\ Len(statusData) = Len(FirstOccurrences(<<>>, StatusValues))

\* the status "10" occurs before the status "2" and the chart lists "2"
\* first
C24_NumericNamesReordered ==
  /\ FirstOccurrences(<<>>, StatusValues) = <<(<<"1", "0">>), <<"2">>>>
  /\ BucketOrder(statusData) = <<(<<"2">>), <<"1", "0">>>>


(***************************************************************************)
(* Independence of the two flows: claim C25                                *)
(***************************************************************************)

\* the steps of the filter flow: a chart click, the answer to the filter
\* request, the filter modal dismissed
FilterFlowStep ==
  ClickStatus \/ CloseModal \/ ClickStatusRemote \/ FilterAnswered \/ CloseModalRemote

\* the steps of the search flow: a search, the answer to the search
\* request, the search modal dismissed
SearchFlowStep ==
  Search \/ CloseSearchModal \/ SearchRemote \/ IssueAnswered \/ CloseSearchModalRemote

\* C25: the filter flow and the search flow are independent in both
\* variants: a chart click, the arrival of a filter response and dismissing
\* the filter modal never change searchId, searchResult or showSearchModal;
\* a search, the arrival of a search response and dismissing the search
\* modal never change selectedFilter, the filtered records or showModal.
C25_FlowsIndependent ==
  [][/\ FilterFlowStep => UNCHANGED <<searchId, searchResult, showSearchModal>>
     /\ SearchFlowStep => UNCHANGED <<selectedFilter, filteredData, showModal>>]_vars

\* remote: a filter answer has arrived and a search answer has arrived, and
\* both modals are shown together
C25_Witness ==
  /\ variant = "remote"
  /\ showModal /\ selectedFilter # <<>> /\ filteredData # <<>>
  /\ showSearchModal /\ searchResult # <<>> /\ searchId # EmptyStr

\* local: a bucket was selected and a record was found, and both modals are
\* shown together
C25_WitnessLocal ==
  /\ variant = "local"
  /\ showModal /\ selectedFilter # <<>> /\ filteredData # <<>>
  /\ showSearchModal /\ searchResult # <<>>


(***************************************************************************)
(* What the modals show: claims C26, C27                                   *)
(***************************************************************************)

\* the request at position i was issued for the filter now selected
AnswersSelection(i) ==
  selectedFilter = <<[type |-> pending[i].arg[1], value |-> pending[i].arg[2]]>>

\* the records of the answer to the request at position i are put into the
\* filter modal
FilterRecordsArrive(i) ==
  \E response \in {r \in FilterResponses : r.kind = "ok"} : FilterResponse(i, response)

\* C26: remote variant: whenever the filter modal is visible the records it
\* lists are the response to the filter request issued for the selectedFilter
\* it displays, however chart clicks, dismissals and filter responses
\* interleave: the records put into the modal always answer the request of
\* the current selection.
C26_ModalListsAnswerToSelection ==
  [][\A i \in 1..Len(pending) :
       (variant = "remote" /\ FilterRecordsArrive(i) /\ FilterShown')
         => AnswersSelection(i)]_vars

\* two filter requests for different buckets are in flight
C26_TwoSelectionsInFlight ==
  /\ variant = "remote"
  /\ \E i \in InFlight("GET filter") : \E j \in InFlight("GET filter") :
       pending[i].arg # pending[j].arg


\* the record is one of the dataset
RecordOf(r, d) == \E i \in 1..Len(d) : d[i] = r

\* C27: local variant: whenever the search modal is visible the record it
\* shows is a record of the dataset currently loaded, however uploads,
\* their completions, searches and dismissals interleave.
C27_SearchResultInDataset ==
  (variant = "local" /\ SearchShown) => RecordOf(searchResult[1], data)

\* a record is put into the search modal only from the dataset loaded at
\* that moment
C27_FoundInDataset ==
  [][(variant = "local" /\ searchResult' # searchResult)
       => RecordOf(searchResult'[1], data')]_vars

\* the dataset was replaced under the open search modal
C27_ResultOfReplacedDataset ==
  /\ variant = "local" /\ SearchShown /\ LoadsInFlight = {}
  /\ ~RecordOf(searchResult[1], data)


(***************************************************************************)
(* Dashboard of one load: claim C28                                        *)
(***************************************************************************)

\* C28: remote variant: whenever the dashboard itself is rendered (loading
\* false and error empty) the records and the statistics were both
\* delivered by the same load, the most recent one, which succeeded for
\* both requests; a load whose issues request succeeds and whose stats
\* request fails never leaves new records displayed next to old statistics.
C28_DashboardOfOneLoad ==
  (variant = "remote" /\ Screen = "dashboard") =>
    /\ fresh.data /\ fresh.stats
    /\ stats # <<>>
    /\ LoadsInFlight = {}

\* the dashboard after a refresh whose records differ from those before
C28_Witness ==
  /\ variant = "remote" /\ Screen = "dashboard"
  /\ dataBeforeLoad # <<>> /\ data # dataBeforeLoad

\* the records of a load whose stats request failed are in data next to the
\* statistics of the load before, behind the error screen
C28_HalfLoadBehindErrorScreen ==
  /\ variant = "remote" /\ Screen = "error"
  /\ fresh.data /\ ~fresh.stats /\ stats # <<>>


(***************************************************************************)
(* The file name shown: claim C29                                          *)
(***************************************************************************)

\* C29: local variant: whenever no upload is pending, the fileName shown
\* (with a check mark and the record count) is the name of the file from
\* which the dataset now displayed was loaded, also after an upload that
\* failed to parse, an upload rejected for its extension, and overlapping
\* uploads.
C29_FileNameOfDataset ==
  (variant = "local" /\ LoadsInFlight = {} /\ fileName # EmptyStr)
    => dataSource = fileName

\* the name of a rejected file is shown over the records of the file
\* loaded before
C29_RejectedNameShown ==
  /\ variant = "local" /\ LoadsInFlight = {}
  /\ data # <<>> /\ dataSource # fileName
  /\ fileName \in UnsupportedNames


(***************************************************************************)
(* Loading ends: claim C30                                                 *)
(***************************************************************************)

\* a load finishes, with either outcome: an upload is parsed or read or
\* fails, or is rejected for its extension; GET stats is answered or
\* fails, or GET issues fails and GET stats is never sent
LoadFinishes ==
  \/ CsvParsed \/ CsvFailed \/ FileRead \/ FileReadFailed
  \/ Upload /\ fileName' \in UnsupportedNames
  \/ StatsAnswered
  \/ IssuesAnswered /\ InFlight("GET stats")' = {}

\* every load that finishes sets loading to false
C30_FinishedLoadClearsLoading == [][LoadFinishes => ~loading']_vars

\* no state has loading set with no load pending
C30_NoLoadingWithoutLoad == LoadsInFlight = {} => ~loading

\* C30: in both variants the loading state always ends: every started load
\* sets loading to false when its fetch, read or parse finishes with either
\* outcome (success, non-success response, thrown error, unsupported
\* extension), so when I/O completes loading is eventually false, and no
\* reachable state has loading true with no load pending.
C30_LoadingEnds ==
  /\ C30_FinishedLoadClearsLoading
  /\ []C30_NoLoadingWithoutLoad
  /\ loading ~> ~loading

\* remote: a refresh of loaded records failed and loading has ended in the
\* error state
C30_Witness ==
  /\ variant = "remote" /\ ~loading /\ LoadsInFlight = {}
  /\ error # EmptyStr /\ dataBeforeLoad # <<>>

\* local: a first upload failed and loading has ended with no records
C30_WitnessLocal ==
  /\ variant = "local" /\ ~loading /\ LoadsInFlight = {}
  /\ fileName # EmptyStr /\ data = <<>>

====
